---- MODULE Spec2Model ----
(***************************************************************************)
(* Model of the x402 payment flow of the Miden agent SDK:                  *)
(*   src/src/fetch.ts            midenFetch, midenFetchWithCallback         *)
(*   src/src/payment-handler.ts  X402PaymentHandler                         *)
(* A call is followed from one `await` to the next; the synchronous code   *)
(* between two awaits is one action.  The HTTP transport and the wallet    *)
(* are stubs whose answers are fixed by `env` (as the mocks of the test    *)
(* suites are), so that two calls can be run against the same stubs.       *)
(***************************************************************************)
EXTENDS Integers, Sequences, FiniteSets, TLC

VARIABLES
  env,          \* the stubs' answers and the caller's options
  pc,           \* per call: the await it is suspended at
  response,     \* per call: the Response object of the first request
  requests,     \* per call: the requests handed to fetch(), in order
  walletCalls,  \* per call: the arguments of each wallet.createP2IDProof call
  selected,     \* per call: the requirement createPayment is working on
  callbacks,    \* per call: the arguments of each onPayment call
  events,       \* per call: what happened, in order
  handled,      \* per call: how the handler method it called settled
  result,       \* per call: how the call settled
  selection,    \* selectRequirement applied on its own: arguments and result
  args,         \* the caller's url and RequestInit members (its headers object)
  codec,        \* the runtime (has it Buffer?) and the codec applied on its own
  wallet,       \* MidenAgentWallet on a scripted WebClient
  bound         \* createMidenFetch: the defaults and the calls of the function

vars == <<env, pc, response, requests, walletCalls, selected, callbacks,
          events, handled, result, selection, args, codec, wallet, bound>>

(***************************************************************************)
(* Bounds and program constants                                            *)
(***************************************************************************)
\* longest `accepts` list of a 402 body
MaxOffers == 2
\* longest `accepts` list when the calls run side by side on the same stubs
MaxPairOffers == 1

\* the protocol version the handler accepts
X402Version == 2
\* HTTP status "Payment Required"
PaymentRequiredStatus == 402

\* an optional value (undefined / absent field) is a sequence of length <= 1
None == <<>>
Some(v) == <<v>>
IsSome(o) == Len(o) = 1
ValueOf(o) == o[1]

(***************************************************************************)
(* BigInt(string): strings are sequences of one-character strings.         *)
(* Covers the decimal grammar (optional sign, digits) and the empty        *)
(* string; every other text of the model's alphabet is a SyntaxError.      *)
(***************************************************************************)
Digits == {"0", "1", "2", "3", "4", "5", "6", "7", "8", "9"}

DigitVal(ch) ==
  CASE ch = "0" -> 0 [] ch = "1" -> 1 [] ch = "2" -> 2 [] ch = "3" -> 3
    [] ch = "4" -> 4 [] ch = "5" -> 5 [] ch = "6" -> 6 [] ch = "7" -> 7
    [] ch = "8" -> 8 [] ch = "9" -> 9

RECURSIVE DigitsValue(_)
DigitsValue(s) ==
  IF s = <<>> THEN 0
  ELSE DigitsValue(SubSeq(s, 1, Len(s) - 1)) * 10 + DigitVal(s[Len(s)])

AllDigits(s) == \A i \in 1..Len(s) : s[i] \in Digits

SyntaxError == [ok |-> FALSE, val |-> 0]

BigInt(s) ==
  IF s = <<>> THEN [ok |-> TRUE, val |-> 0]
  ELSE IF s[1] \in {"-", "+"}
       THEN IF Len(s) > 1 /\ AllDigits(Tail(s))
            THEN [ok |-> TRUE,
                  val |-> IF s[1] = "-" THEN 0 - DigitsValue(Tail(s))
                          ELSE DigitsValue(Tail(s))]
            ELSE SyntaxError
       ELSE IF AllDigits(s) THEN [ok |-> TRUE, val |-> DigitsValue(s)]
            ELSE SyntaxError

(***************************************************************************)
(* The Payment header codec (payment-handler.ts:255-284).                  *)
(* A JavaScript string is the sequence of its UTF-16 code units; a header  *)
(* is a sequence of one-character strings; a bigint is the sequence of its *)
(* decimal digits (it has no width).  JavaScript values are trees:         *)
(*   [t |-> "string", s], [t |-> "number", n], [t |-> "bigint", digits],   *)
(*   [t |-> "object", members] with members a sequence of <<key, value>>.  *)
(* The strings of the model contain no control character and no lone       *)
(* surrogate; numbers are non-negative integers.                           *)
(***************************************************************************)
\* the code units of the strings the model writes as literals
CodeUnits ==
  "x402Version" :> <<120, 52, 48, 50, 86, 101, 114, 115, 105, 111, 110>> @@
  "accepted" :> <<97, 99, 99, 101, 112, 116, 101, 100>> @@
  "payload" :> <<112, 97, 121, 108, 111, 97, 100>> @@
  "resource" :> <<114, 101, 115, 111, 117, 114, 99, 101>> @@
  "scheme" :> <<115, 99, 104, 101, 109, 101>> @@
  "network" :> <<110, 101, 116, 119, 111, 114, 107>> @@
  "amount" :> <<97, 109, 111, 117, 110, 116>> @@
  "payTo" :> <<112, 97, 121, 84, 111>> @@
  "asset" :> <<97, 115, 115, 101, 116>> @@
  "maxTimeoutSeconds" :> <<109, 97, 120, 84, 105, 109, 101, 111, 117, 116, 83, 101, 99, 111, 110, 100, 115>> @@
  "extra" :> <<101, 120, 116, 114, 97>> @@
  "from" :> <<102, 114, 111, 109>> @@
  "provenTransaction" :> <<112, 114, 111, 118, 101, 110, 84, 114, 97, 110, 115, 97, 99, 116, 105, 111, 110>> @@
  "transactionId" :> <<116, 114, 97, 110, 115, 97, 99, 116, 105, 111, 110, 73, 100>> @@
  "url" :> <<117, 114, 108>> @@
  "method" :> <<109, 101, 116, 104, 111, 100>> @@
  "headers" :> <<104, 101, 97, 100, 101, 114, 115>> @@
  "exact" :> <<101, 120, 97, 99, 116>> @@
  "upto" :> <<117, 112, 116, 111>> @@
  "miden:testnet" :> <<109, 105, 100, 101, 110, 58, 116, 101, 115, 116, 110, 101, 116>> @@
  "eip155:1" :> <<101, 105, 112, 49, 53, 53, 58, 49>> @@
  "0xrecipient" :> <<48, 120, 114, 101, 99, 105, 112, 105, 101, 110, 116>> @@
  "0xfaucet" :> <<48, 120, 102, 97, 117, 99, 101, 116>> @@
  "0xother" :> <<48, 120, 111, 116, 104, 101, 114>> @@
  "0xagent" :> <<48, 120, 97, 103, 101, 110, 116>> @@
  "cafebabe" :> <<99, 97, 102, 101, 98, 97, 98, 101>> @@
  "tx-fetch-001" :> <<116, 120, 45, 102, 101, 116, 99, 104, 45, 48, 48, 49>> @@
  "deadbeef" :> <<100, 101, 97, 100, 98, 101, 101, 102>> @@
  "tx-fetch-002" :> <<116, 120, 45, 102, 101, 116, 99, 104, 45, 48, 48, 50>> @@
  "miden:" :> <<109, 105, 100, 101, 110, 58>> @@
  "0xaB1" :> <<48, 120, 97, 66, 49>> @@
  "af" :> <<97, 102>> @@
  "https://example.com/api" :> <<104, 116, 116, 112, 115, 58, 47, 47, 101, 120, 97, 109, 112, 108, 101, 46, 99, 111, 109, 47, 97, 112, 105>> @@
  "GET" :> <<71, 69, 84>> @@
  "memo" :> <<109, 101, 109, 111>> @@
  "note" :> <<110, 111, 116, 101>>

Str(s) == CodeUnits[s]

JSString(s) == [t |-> "string", s |-> s]
JSNumber(n) == [t |-> "number", n |-> n]
JSBigInt(digits) == [t |-> "bigint", digits |-> digits]
JSObject(members) == [t |-> "object", members |-> members]

\* the code unit of a decimal digit, and of the digit a one-character
\* string holds
DigitUnit(d) == 48 + d
LetterUnit == "a" :> 97 @@ "b" :> 98 @@ "c" :> 99 @@ "-" :> 45 @@ "+" :> 43
AmountUnits(s) ==
  [i \in 1..Len(s) |->
     IF s[i] \in Digits THEN DigitUnit(DigitVal(s[i])) ELSE LetterUnit[s[i]]]

\* Number.prototype.toString for a non-negative integer
RECURSIVE NumberToString(_)
NumberToString(n) ==
  IF n < 10 THEN <<DigitUnit(n)>>
  ELSE NumberToString(n \div 10) \o <<DigitUnit(n % 10)>>

\* BigInt.prototype.toString
BigIntToString(digits) == [i \in 1..Len(digits) |-> DigitUnit(digits[i])]

\* the replacer of encodePaymentHeader: BigInt -> string
Replacer(value) ==
  IF value.t = "bigint" THEN JSString(BigIntToString(value.digits)) ELSE value

\* QuoteJSONString: the string between quotes, the quote and the
\* backslash escaped
RECURSIVE QuoteUnits(_)
QuoteUnits(s) ==
  IF s = <<>> THEN <<>>
  ELSE (IF Head(s) \in {34, 92} THEN <<92, Head(s)>> ELSE <<Head(s)>>)
         \o QuoteUnits(Tail(s))

QuoteJSONString(s) == <<34>> \o QuoteUnits(s) \o <<34>>

\* JSON.stringify(value, replacer): the text, or a TypeError for a value
\* that is still a bigint after the replacer has seen it
JSONText(ok, text) == [ok |-> ok, text |-> text]

RECURSIVE SerializeJSONProperty(_)
RECURSIVE SerializeJSONObject(_, _)
SerializeJSONObject(members, i) ==
  IF i > Len(members) THEN JSONText(TRUE, <<>>)
  ELSE LET value == SerializeJSONProperty(members[i][2])
           rest == SerializeJSONObject(members, i + 1)
       IN  IF ~value.ok \/ ~rest.ok THEN JSONText(FALSE, <<>>)
           ELSE JSONText(TRUE,
                  QuoteJSONString(members[i][1]) \o <<58>> \o value.text
                    \o (IF rest.text = <<>> THEN <<>> ELSE <<44>> \o rest.text))

SerializeJSONProperty(v) ==
  LET value == Replacer(v)
  IN  IF value.t = "bigint" THEN JSONText(FALSE, <<>>)
      ELSE IF value.t = "string" THEN JSONText(TRUE, QuoteJSONString(value.s))
      ELSE IF value.t = "number" THEN JSONText(TRUE, NumberToString(value.n))
      ELSE LET inner == SerializeJSONObject(value.members, 1)
           IN  IF ~inner.ok THEN inner
               ELSE JSONText(TRUE, <<123>> \o inner.text \o <<125>>)

JSONstringify(value) == SerializeJSONProperty(value)

\* the UTF-8 bytes of a string (TextEncoder, Buffer.from(str, "utf-8"),
\* unescape(encodeURIComponent(str))); a lone surrogate has no encoding
HighSurrogate(u) == u >= 55296 /\ u <= 56319
LowSurrogate(u) == u >= 56320 /\ u <= 57343
ReplacementBytes == <<239, 191, 189>>

CodePointBytes(cp) ==
  IF cp < 128 THEN <<cp>>
  ELSE IF cp < 2048 THEN <<192 + (cp \div 64), 128 + (cp % 64)>>
  ELSE IF cp < 65536
       THEN <<224 + (cp \div 4096), 128 + ((cp \div 64) % 64), 128 + (cp % 64)>>
       ELSE <<240 + (cp \div 262144), 128 + ((cp \div 4096) % 64),
              128 + ((cp \div 64) % 64), 128 + (cp % 64)>>

Bytes(ok, bytes) == [ok |-> ok, bytes |-> bytes]

\* the concatenation of the sequences pieces[lo], ..., pieces[hi]
RECURSIVE Concat(_, _, _)
Concat(pieces, lo, hi) ==
  IF lo > hi THEN <<>>
  ELSE IF lo = hi THEN pieces[lo]
  ELSE LET mid == (lo + hi) \div 2
       IN  Concat(pieces, lo, mid) \o Concat(pieces, mid + 1, hi)

\* a high surrogate followed by a low one is one code point; a surrogate
\* that is not part of such a pair is a lone surrogate
PairStart(s, i) == HighSurrogate(s[i]) /\ i < Len(s) /\ LowSurrogate(s[i + 1])
PairEnd(s, i) == LowSurrogate(s[i]) /\ i > 1 /\ HighSurrogate(s[i - 1])
LoneSurrogate(s, i) ==
  (HighSurrogate(s[i]) \/ LowSurrogate(s[i])) /\ ~PairStart(s, i) /\ ~PairEnd(s, i)

UTF8Encode(s, from) ==
  LET UnitBytes(i) ==
        IF PairStart(s, i)
        THEN CodePointBytes(65536 + ((s[i] - 55296) * 1024) + (s[i + 1] - 56320))
        ELSE IF PairEnd(s, i) THEN <<>>
        ELSE IF LoneSurrogate(s, i) THEN ReplacementBytes
        ELSE CodePointBytes(s[i])
  IN  Bytes(\A i \in from..Len(s) : ~LoneSurrogate(s, i),
            Concat([i \in 1..Len(s) |-> UnitBytes(i)], from, Len(s)))

\* the base64 alphabet, sextet n at index n + 1
Base64Alphabet ==
  <<"A", "B", "C", "D", "E", "F", "G", "H", "I", "J", "K", "L", "M", "N", "O", "P",
    "Q", "R", "S", "T", "U", "V", "W", "X", "Y", "Z", "a", "b", "c", "d", "e", "f",
    "g", "h", "i", "j", "k", "l", "m", "n", "o", "p", "q", "r", "s", "t", "u", "v",
    "w", "x", "y", "z", "0", "1", "2", "3", "4", "5", "6", "7", "8", "9", "+", "/">>
Base64Char(n) == Base64Alphabet[n + 1]
Padding == "="

\* bytes -> base64 characters, three bytes to four characters, padded
BytesToBase64(b, from) ==
  LET n == Len(b) - from + 1
      Group(g) ==
        LET i == from + (3 * (g - 1))
            left == Len(b) - i + 1
        IN  IF left = 1
            THEN <<Base64Char(b[i] \div 4), Base64Char((b[i] % 4) * 16), Padding, Padding>>
            ELSE IF left = 2
            THEN <<Base64Char(b[i] \div 4),
                   Base64Char(((b[i] % 4) * 16) + (b[i + 1] \div 16)),
                   Base64Char((b[i + 1] % 16) * 4), Padding>>
            ELSE <<Base64Char(b[i] \div 4),
                   Base64Char(((b[i] % 4) * 16) + (b[i + 1] \div 16)),
                   Base64Char(((b[i + 1] % 16) * 4) + (b[i + 2] \div 64)),
                   Base64Char(b[i + 2] % 64)>>
      groups == (n + 2) \div 3
  IN  Concat([g \in 1..groups |-> Group(g)], 1, groups)

\* the header, or the error thrown instead
Header(ok, err, header) == [ok |-> ok, err |-> err, header |-> header]

\* slip: btoa(str) without the UTF-8 step; btoa takes Latin-1 only
base64Encode_latin1(str, hasBuffer) ==
  IF \E i \in 1..Len(str) : str[i] > 255
  THEN Header(FALSE, "InvalidCharacterError", <<>>)
  ELSE Header(TRUE, "", BytesToBase64(str, 1))

\* base64Encode: Buffer.from(str, "utf-8").toString("base64") where Buffer
\* exists (a lone surrogate becomes U+FFFD), otherwise
\* btoa(unescape(encodeURIComponent(str))) (a lone surrogate is a URIError)
base64Encode(str, hasBuffer) ==
  LET utf8 == UTF8Encode(str, 1)
  IN  IF ~utf8.ok /\ ~hasBuffer THEN Header(FALSE, "URIError", <<>>)
      ELSE Header(TRUE, "", BytesToBase64(utf8.bytes, 1))

\* encodePaymentHeader(payload)
encodePaymentHeader(payload, hasBuffer) ==
  LET json == JSONstringify(payload)
  IN  IF ~json.ok THEN Header(FALSE, "TypeError", <<>>)
      ELSE base64Encode(json.text, hasBuffer)

\* the sextet of a base64 character, or -1: Buffer also takes the URL-safe
\* "-" and "_", atob does not
Sextet(ch, urlSafe) ==
  IF \E n \in 1..64 : Base64Alphabet[n] = ch
  THEN (CHOOSE n \in 1..64 : Base64Alphabet[n] = ch) - 1
  ELSE IF urlSafe /\ ch = "-" THEN 62
  ELSE IF urlSafe /\ ch = "_" THEN 63
  ELSE -1

\* sextets -> bytes; the bits of an incomplete last group are dropped
SextetsToBytes(x, from) ==
  LET n == Len(x) - from + 1
      Group(g) ==
        LET i == from + (4 * (g - 1))
            left == Len(x) - i + 1
        IN  IF left <= 1 THEN <<>>
            ELSE IF left = 2 THEN <<(x[i] * 4) + (x[i + 1] \div 16)>>
            ELSE IF left = 3
            THEN <<(x[i] * 4) + (x[i + 1] \div 16),
                   ((x[i + 1] % 16) * 16) + (x[i + 2] \div 4)>>
            ELSE <<(x[i] * 4) + (x[i + 1] \div 16),
                   ((x[i + 1] % 16) * 16) + (x[i + 2] \div 4),
                   ((x[i + 2] % 4) * 64) + x[i + 3]>>
      groups == (n + 3) \div 4
  IN  Concat([g \in 1..groups |-> Group(g)], 1, groups)

\* Buffer.from(encoded, "base64"): a character that is not base64 is
\* skipped, the first "=" ends the input
BufferSextets(encoded, from) ==
  LET pads == {i \in from..Len(encoded) : encoded[i] = Padding}
      end == IF pads = {} THEN Len(encoded)
             ELSE (CHOOSE i \in pads : \A j \in pads : i <= j) - 1
      kept == SelectSeq(SubSeq(encoded, from, end), LAMBDA ch : Sextet(ch, TRUE) >= 0)
  IN  [i \in 1..Len(kept) |-> Sextet(kept[i], TRUE)]

BufferFromBase64(encoded) == Bytes(TRUE, SextetsToBytes(BufferSextets(encoded, 1), 1))

\* atob(encoded): ASCII whitespace is removed, one or two "=" are removed
\* from the end of an input whose length is a multiple of four; a length
\* of 1 modulo 4 or any other character is an InvalidCharacterError
AsciiWhitespace == {" "}
atob(encoded) ==
  LET data == SelectSeq(encoded, LAMBDA ch : ch \notin AsciiWhitespace)
      n == Len(data)
      pad == IF n % 4 # 0 \/ n = 0 \/ data[n] # Padding THEN 0
             ELSE IF data[n - 1] = Padding THEN 2 ELSE 1
      body == SubSeq(data, 1, n - pad)
  IN  IF Len(body) % 4 = 1 \/ \E i \in 1..Len(body) : Sextet(body[i], FALSE) < 0
      THEN Bytes(FALSE, <<>>)
      ELSE Bytes(TRUE, SextetsToBytes([i \in 1..Len(body) |-> Sextet(body[i], FALSE)], 1))

\* UTF-8 decoding.  Continuation(b, i, k): byte k after the lead byte b[i]
\* is there and in the range the lead byte allows
Continuation(b, i, k) ==
  /\ i + k <= Len(b)
  /\ LET lead == b[i]
         lo == IF k = 1 /\ lead = 224 THEN 160 ELSE IF k = 1 /\ lead = 240 THEN 144 ELSE 128
         hi == IF k = 1 /\ lead = 237 THEN 159 ELSE IF k = 1 /\ lead = 244 THEN 143 ELSE 191
     IN  b[i + k] >= lo /\ b[i + k] <= hi

\* how many bytes follow a lead byte (-1: not a lead byte)
Needed(lead) ==
  IF lead < 128 THEN 0
  ELSE IF lead >= 194 /\ lead <= 223 THEN 1
  ELSE IF lead >= 224 /\ lead <= 239 THEN 2
  ELSE IF lead >= 240 /\ lead <= 244 THEN 3
  ELSE -1

CodePointUnits(cp) ==
  IF cp < 65536 THEN <<cp>>
  ELSE <<55296 + ((cp - 65536) \div 1024), 56320 + ((cp - 65536) % 1024)>>

Text(ok, text) == [ok |-> ok, text |-> text]
ReplacementCharacter == 65533

\* how many of the bytes a lead byte needs follow it in range
Good(b, i) ==
  LET need == Needed(b[i])
  IN  IF need <= 0 THEN 0
      ELSE IF ~Continuation(b, i, 1) THEN 0
      ELSE IF need = 1 \/ ~Continuation(b, i, 2) THEN 1
      ELSE IF need = 2 \/ ~Continuation(b, i, 3) THEN 2
      ELSE 3

\* a byte of the form 10xxxxxx is taken by the lead byte k places before
\* it when the bytes in between are in range; otherwise it stands alone
ContinuationForm(byte) == byte >= 128 /\ byte <= 191
Taken(b, i) ==
  /\ ContinuationForm(b[i])
  /\ \E k \in 1..3 : i - k >= 1 /\ ~ContinuationForm(b[i - k]) /\ Good(b, i - k) >= k

\* text.ok is FALSE when some byte sequence was not UTF-8; text.text then
\* has U+FFFD in its place (Buffer.toString("utf-8"))
UTF8Decode(b, from) ==
  LET WellFormed(i) ==
        Taken(b, i) \/ (~ContinuationForm(b[i]) /\ Needed(b[i]) >= 0
                          /\ Good(b, i) = Needed(b[i]))
      CodePoint(i) ==
        LET need == Needed(b[i])
        IN  IF need = 0 THEN b[i]
            ELSE IF need = 1 THEN ((b[i] - 192) * 64) + (b[i + 1] - 128)
            ELSE IF need = 2
            THEN ((b[i] - 224) * 4096) + ((b[i + 1] - 128) * 64) + (b[i + 2] - 128)
            ELSE ((b[i] - 240) * 262144) + ((b[i + 1] - 128) * 4096)
                   + ((b[i + 2] - 128) * 64) + (b[i + 3] - 128)
      Units(i) ==
        IF Taken(b, i) THEN <<>>
        ELSE IF WellFormed(i) THEN CodePointUnits(CodePoint(i))
        ELSE <<ReplacementCharacter>>
  IN  Text(\A i \in from..Len(b) : WellFormed(i),
           Concat([i \in 1..Len(b) |-> Units(i)], from, Len(b)))

\* the decoded text, or the error thrown instead
Decoded(ok, err, text) == [ok |-> ok, err |-> err, text |-> text]

\* base64Decode: Buffer.from(encoded, "base64").toString("utf-8") where
\* Buffer exists, otherwise decodeURIComponent(escape(atob(encoded)))
base64Decode(encoded, hasBuffer) ==
  IF hasBuffer
  THEN LET bytes == BufferFromBase64(encoded)
       IN  IF ~bytes.ok THEN Decoded(FALSE, "TypeError", <<>>)
           ELSE Decoded(TRUE, "", UTF8Decode(bytes.bytes, 1).text)
  ELSE LET binary == atob(encoded)
           text == UTF8Decode(binary.bytes, 1)
       IN  IF ~binary.ok THEN Decoded(FALSE, "InvalidCharacterError", <<>>)
           ELSE IF ~text.ok THEN Decoded(FALSE, "URIError", <<>>)
           ELSE Decoded(TRUE, "", text.text)

\* JSON.parse for the JSON texts of the model: objects, strings with the
\* escapes \" \\ \/, non-negative integers, true, false and null
JSNull == [t |-> "null"]
JSBoolean(b) == [t |-> "boolean", b |-> b]
ParseResult(ok, value, next) == [ok |-> ok, value |-> value, next |-> next]
SyntaxErrorAt(i) == ParseResult(FALSE, JSNull, i)
JSONWhitespace == {32, 9, 10, 13}
IsDigitUnit(u) == u >= 48 /\ u <= 57

RECURSIVE SkipWhitespace(_, _)
SkipWhitespace(text, i) ==
  IF i <= Len(text) /\ text[i] \in JSONWhitespace THEN SkipWhitespace(text, i + 1) ELSE i

\* the characters of a string, from the one after the opening quote
RECURSIVE ParseString(_, _)
ParseString(text, i) ==
  IF i > Len(text) \/ text[i] < 32 THEN SyntaxErrorAt(i)
  ELSE IF text[i] = 34 THEN ParseResult(TRUE, <<>>, i + 1)
  ELSE IF text[i] = 92
  THEN IF i + 1 > Len(text) \/ text[i + 1] \notin {34, 92, 47} THEN SyntaxErrorAt(i)
       ELSE LET rest == ParseString(text, i + 2)
            IN  IF ~rest.ok THEN rest
                ELSE ParseResult(TRUE, <<text[i + 1]>> \o rest.value, rest.next)
  ELSE LET rest == ParseString(text, i + 1)
       IN  IF ~rest.ok THEN rest
           ELSE ParseResult(TRUE, <<text[i]>> \o rest.value, rest.next)

\* the digits of a number, from its first digit; n is the value so far
RECURSIVE ParseNumber(_, _, _)
ParseNumber(text, i, n) ==
  IF i <= Len(text) /\ IsDigitUnit(text[i])
  THEN ParseNumber(text, i + 1, (n * 10) + (text[i] - 48))
  ELSE ParseResult(TRUE, JSNumber(n), i)

Literal(text, i, word) ==
  /\ i + Len(word) - 1 <= Len(text)
  /\ SubSeq(text, i, i + Len(word) - 1) = word

RECURSIVE ParseValue(_, _)
RECURSIVE ParseMembers(_, _, _)
\* the members of an object, from the key at i; members: those read so far
ParseMembers(text, i, members) ==
  IF i > Len(text) \/ text[i] # 34 THEN SyntaxErrorAt(i)
  ELSE LET key == ParseString(text, i + 1)
           colon == SkipWhitespace(text, key.next)
       IN  IF ~key.ok \/ colon > Len(text) \/ text[colon] # 58 THEN SyntaxErrorAt(colon)
           ELSE LET value == ParseValue(text, colon + 1)
                    after == SkipWhitespace(text, value.next)
                    all == Append(members, <<key.value, value.value>>)
                IN  IF ~value.ok \/ after > Len(text) THEN SyntaxErrorAt(after)
                    ELSE IF text[after] = 125
                    THEN ParseResult(TRUE, JSObject(all), after + 1)
                    ELSE IF text[after] = 44
                    THEN ParseMembers(text, SkipWhitespace(text, after + 1), all)
                    ELSE SyntaxErrorAt(after)

ParseValue(text, start) ==
  LET i == SkipWhitespace(text, start)
  IN  IF i > Len(text) THEN SyntaxErrorAt(i)
      ELSE IF text[i] = 123
      THEN LET j == SkipWhitespace(text, i + 1)
           IN  IF j <= Len(text) /\ text[j] = 125
               THEN ParseResult(TRUE, JSObject(<<>>), j + 1)
               ELSE ParseMembers(text, j, <<>>)
      ELSE IF text[i] = 34
      THEN LET s == ParseString(text, i + 1)
           IN  ParseResult(s.ok, JSString(s.value), s.next)
      ELSE IF IsDigitUnit(text[i])
      THEN IF text[i] = 48 /\ i < Len(text) /\ IsDigitUnit(text[i + 1])
           THEN SyntaxErrorAt(i + 1)
           ELSE ParseNumber(text, i, 0)
      ELSE IF Literal(text, i, <<110, 117, 108, 108>>)
      THEN ParseResult(TRUE, JSNull, i + 4)
      ELSE IF Literal(text, i, <<116, 114, 117, 101>>)
      THEN ParseResult(TRUE, JSBoolean(TRUE), i + 4)
      ELSE IF Literal(text, i, <<102, 97, 108, 115, 101>>)
      THEN ParseResult(TRUE, JSBoolean(FALSE), i + 5)
      ELSE SyntaxErrorAt(i)

\* JSON.parse(text): the value, or ok = FALSE for a SyntaxError
JSONparse(text) ==
  LET v == ParseValue(text, 1)
  IN  IF v.ok /\ SkipWhitespace(text, v.next) > Len(text) THEN v ELSE SyntaxErrorAt(v.next)

\* what decodePaymentHeader returns, or the error it throws
DecodedPayload(ok, err, value) == [ok |-> ok, err |-> err, value |-> value]

\* decodePaymentHeader(header)
decodePaymentHeader(header, hasBuffer) ==
  LET json == base64Decode(header, hasBuffer)
      parsed == JSONparse(json.text)
  IN  IF ~json.ok THEN DecodedPayload(FALSE, json.err, JSNull)
      ELSE IF ~parsed.ok THEN DecodedPayload(FALSE, "SyntaxError", JSNull)
      ELSE DecodedPayload(TRUE, "", parsed.value)

(***************************************************************************)
(* Data: offers, 402 bodies, responses, options                            *)
(***************************************************************************)
MidenPaymentRequirements(scheme, network, amount, asset) ==
  [scheme |-> scheme, network |-> network, amount |-> amount,
   payTo |-> "0xrecipient", maxTimeoutSeconds |-> 300, asset |-> asset,
   extra |-> None]

\* the offer of the test suites: exact, miden:testnet, "500", 0xfaucet
OfferGood == MidenPaymentRequirements("exact", "miden:testnet", <<"5", "0", "0">>, "0xfaucet")
\* the same offer at a price above every bound of the model
OfferPricey == MidenPaymentRequirements("exact", "miden:testnet", <<"9", "9", "9">>, "0xfaucet")
\* an offer of another scheme
OfferScheme == MidenPaymentRequirements("upto", "miden:testnet", <<"5", "0", "0">>, "0xfaucet")
\* an offer in another asset, cheaper than OfferGood
\* (it carries an `extra` member)
ExtraMemo == JSObject(<< <<Str("note"), JSString(Str("memo"))>> >>)
OfferOtherFaucet ==
  [MidenPaymentRequirements("exact", "miden:testnet", <<"7">>, "0xother")
     EXCEPT !.extra = Some(ExtraMemo)]
\* an offer whose amount is not a decimal integer (z.string() accepts it)
OfferBadAmount == MidenPaymentRequirements("exact", "miden:testnet", <<"a", "b", "c">>, "0xfaucet")

\* an element of accepts that is not requirement-shaped: payTo is missing
OfferNoPayTo ==
  [scheme |-> "exact", network |-> "miden:testnet", amount |-> <<"5", "0", "0">>,
   maxTimeoutSeconds |-> 300, asset |-> "0xfaucet", extra |-> None]

Offers == {OfferGood, OfferPricey, OfferScheme, OfferOtherFaucet, OfferBadAmount}

RECURSIVE SeqsUpTo(_, _)
SeqsUpTo(S, n) ==
  IF n = 0 THEN {<<>>}
  ELSE LET shorter == SeqsUpTo(S, n - 1)
       IN  shorter \cup {Append(s, x) : s \in shorter, x \in S}

ResourceInfo == [url |-> "https://example.com/api", method |-> "GET"]

\* a response body: text that is not JSON, or a JSON object whose members
\* may be absent
Body(isJson, version, accepts, resource, error) ==
  [isJson |-> isJson, x402Version |-> version, accepts |-> accepts,
   resource |-> resource, error |-> error]

NotJsonBody == Body(FALSE, None, None, None, None)

PaymentRequiredBody(accepts) ==
  Body(TRUE, Some(X402Version), Some(accepts), Some(ResourceInfo), None)

BodiesUpTo(n) ==
  {PaymentRequiredBody(a) : a \in SeqsUpTo(Offers, n)}
    \cup {NotJsonBody,
          Body(TRUE, Some(1), Some(<<OfferGood>>), Some(ResourceInfo), None),
          Body(TRUE, Some(X402Version), None, Some(ResourceInfo), None),
          PaymentRequiredBody(<<OfferGood, OfferNoPayTo>>),
          Body(TRUE, Some(X402Version), Some(<<OfferGood>>), None, None)}

\* a Response object: `id` tells the objects apart (1: answer to the first
\* request, 2: answer to the retry, 0: built by the SDK itself)
Response(id, status, body) ==
  [id |-> id, status |-> status, body |-> body, bodyUsed |-> FALSE]

\* what the transport stub answers: a failure (ok = FALSE), or a status and
\* a body; bodyOk = FALSE is a body stream that breaks while it is read
Answer(ok, status, body, bodyOk) ==
  [ok |-> ok, status |-> status, body |-> body, bodyOk |-> bodyOk]

TransportFailure == Answer(FALSE, 0, NotJsonBody, TRUE)

Answers(n) ==
  {TransportFailure,
   Answer(TRUE, PaymentRequiredStatus, PaymentRequiredBody(<<OfferGood>>), FALSE)}
    \cup {Answer(TRUE, s, NotJsonBody, TRUE) : s \in {200, 500}}
    \cup {Answer(TRUE, PaymentRequiredStatus, b, TRUE) : b \in BodiesUpTo(n)}

RetryAnswers ==
  {TransportFailure,
   Answer(TRUE, 200, NotJsonBody, TRUE),
   Answer(TRUE, PaymentRequiredStatus, PaymentRequiredBody(<<OfferGood>>), TRUE)}

\* MidenFetchOptions: the x402 members (maxPayment is a bigint)
MidenFetchOptions ==
  [maxPayment : {None, Some(0), Some(600)},
   allowedFaucets : {None, Some(<<>>), Some(<<"0xfaucet">>)},
   allowedNetworks : {None, Some(<<"miden:testnet">>)},
   dryRun : BOOLEAN]

Envs(n) ==
  [options : MidenFetchOptions,
   first : Answers(n),
   walletOk : BOOLEAN,
   callbackOk : BOOLEAN,
   retry : RetryAnswers]

FetchCalls == {"midenFetch", "midenFetchWithCallback"}
\* a second call of midenFetch, made while the first is under way
SecondCall == "midenFetch (second call)"
MidenFetchCalls == {"midenFetch", SecondCall}
\* the handler's methods that take a Response, called directly
HandlerCalls == {"handlePaymentRequired", "parsePaymentRequired"}
Calls == FetchCalls \cup HandlerCalls

\* the stubs' answers to call c and the options call c was given: the
\* second call has its own
EnvOf(c) == IF c = SecondCall THEN env.second ELSE env

\* slip: one handler, made by the first call, serves every call
ConstraintsOf_shared(c) == env.options

\* `new X402PaymentHandler(wallet, { maxPayment, allowedFaucets,
\* allowedNetworks })`: each call makes a handler of its own options
ConstraintsOf(c) == EnvOf(c).options

(***************************************************************************)
(* X402PaymentHandler                                                      *)
(***************************************************************************)
\* PaymentRequiredSchema.safeParse: x402Version and accepts are required.
\* An element of accepts is a record of the members the JSON object has; its
\* string members hold strings and maxTimeoutSeconds a number, except the
\* members `mistyped` names, whose JSON value is of another type
Mistyped(offer) == IF "mistyped" \in DOMAIN offer THEN offer.mistyped ELSE {}

\* z.object({ scheme, network, amount, payTo, asset: z.string(),
\* maxTimeoutSeconds: z.number().optional(), extra: z.unknown().optional() })
RequirementShaped(offer) ==
  /\ {"scheme", "network", "amount", "payTo", "asset"} \subseteq DOMAIN offer
  /\ Mistyped(offer) \cap {"scheme", "network", "amount", "payTo", "asset",
                            "maxTimeoutSeconds"} = {}

\* slip: only the first element of accepts is validated
SchemaAccepts_first(body) ==
  /\ IsSome(body.x402Version)
  /\ IsSome(body.accepts)
  /\ Len(ValueOf(body.accepts)) > 0 => RequirementShaped(ValueOf(body.accepts)[1])

SchemaAccepts(body) ==
  /\ IsSome(body.x402Version)
  /\ IsSome(body.accepts)
  /\ \A i \in 1..Len(ValueOf(body.accepts)) : RequirementShaped(ValueOf(body.accepts)[i])

\* slip: the version check is left out
parsePaymentRequired_anyVersion(body, read) ==
  IF ~read \/ ~body.isJson THEN None
  ELSE IF ~SchemaAccepts(body) THEN None
  ELSE Some(body)

\* parsePaymentRequired once response.json() has settled: the parsed body,
\* or None for null.  `read` is FALSE when reading the body rejected.
parsePaymentRequired(body, read) ==
  IF ~read \/ ~body.isJson THEN None
  ELSE IF ~SchemaAccepts(body) THEN None
  ELSE IF ValueOf(body.x402Version) # X402Version THEN None
  ELSE Some(body)

\* slip: the negation of includes() is missing
NotAllowed_included(list, x) ==
  /\ Len(list) = 1
  /\ Len(list[1]) > 0
  /\ \E i \in 1..Len(list[1]) : list[1][i] = x

\* `list?.length && !list.includes(x)`
NotAllowed(list, x) ==
  /\ IsSome(list)
  /\ Len(ValueOf(list)) > 0
  /\ ~\E i \in 1..Len(ValueOf(list)) : ValueOf(list)[i] = x

\* slip: a maxPayment of 0n is taken as a bound
MaxPaymentActive_zeroBounds(options) == Len(options.maxPayment) = 1

\* `this.options.maxPayment && this.options.maxPayment > 0n`
MaxPaymentActive(options) ==
  IsSome(options.maxPayment) /\ ValueOf(options.maxPayment) > 0

\* the loop of selectRequirement from index i on: the index of the offer
\* returned ("req"), "null", or "throw" when BigInt(req.amount) throws
RECURSIVE SelectFrom(_, _, _)
SelectFrom(requirements, i, options) ==
  IF i > Len(requirements) THEN [kind |-> "null", index |-> 0]
  ELSE LET req == requirements[i]
           next == SelectFrom(requirements, i + 1, options)
       IN  IF req.scheme # "exact" THEN next
           ELSE IF NotAllowed(options.allowedNetworks, req.network) THEN next
           ELSE IF NotAllowed(options.allowedFaucets, req.asset) THEN next
           ELSE IF MaxPaymentActive(options)
                THEN IF ~BigInt(req.amount).ok
                     THEN [kind |-> "throw", index |-> i]
                     ELSE IF BigInt(req.amount).val > ValueOf(options.maxPayment)
                          THEN next
                          ELSE [kind |-> "req", index |-> i]
                ELSE [kind |-> "req", index |-> i]

\* slip: the loop keeps going and the last match wins
selectRequirement_lastMatch(requirements, options) ==
  LET reversed == [k \in 1..Len(requirements) |-> requirements[Len(requirements) + 1 - k]]
      found == SelectFrom(reversed, 1, options)
  IN  IF found.kind = "null" THEN found
      ELSE [kind |-> found.kind, index |-> Len(requirements) + 1 - found.index]

selectRequirement(requirements, options) == SelectFrom(requirements, 1, options)

\* slip: the note type is left to the requirement's scheme
ProofRequest_private(requirements) ==
  [recipientId |-> requirements.payTo, faucetId |-> requirements.asset,
   amount |-> BigInt(requirements.amount).val, noteType |-> "private"]

\* the arguments createPayment passes to wallet.createP2IDProof
ProofRequest(requirements) ==
  [recipientId |-> requirements.payTo, faucetId |-> requirements.asset,
   amount |-> BigInt(requirements.amount).val, noteType |-> "public"]

\* what the wallet stub resolves with, and its accountId
WalletProof == [provenTransactionHex |-> "cafebabe", transactionId |-> "tx-fetch-001"]
\* what it resolves the invocation of the second call with
SecondProof == [provenTransactionHex |-> "deadbeef", transactionId |-> "tx-fetch-002"]
ProofOf(c) == IF c = SecondCall THEN SecondProof ELSE WalletProof
WalletAccountId == "0xagent"

\* the V2 payload createPayment builds
Member(key, value) == <<Str(key), value>>

\* a parsed requirement as a JavaScript object: the members in the order
\* of the schema, maxTimeoutSeconds and `extra` only when the offer has one
RequirementValue(requirements) ==
  JSObject(<<Member("scheme", JSString(Str(requirements.scheme))),
             Member("network", JSString(Str(requirements.network))),
             Member("amount", JSString(AmountUnits(requirements.amount))),
             Member("payTo", JSString(Str(requirements.payTo))),
             Member("asset", JSString(Str(requirements.asset)))>>
           \o (IF "maxTimeoutSeconds" \in DOMAIN requirements
               THEN <<Member("maxTimeoutSeconds", JSNumber(requirements.maxTimeoutSeconds))>>
               ELSE <<>>)
           \o (IF IsSome(requirements.extra)
               THEN <<Member("extra", ValueOf(requirements.extra))>> ELSE <<>>))

ResourceValue(resource) ==
  JSObject(<<Member("url", JSString(Str(resource.url))),
             Member("method", JSString(Str(resource.method)))>>)

\* slip: the resource of the 402 body is not echoed
V2PaymentPayload_noResource(requirements, resource, proof) ==
  JSObject(<<Member("x402Version", JSNumber(X402Version)),
             Member("accepted", RequirementValue(requirements)),
             Member("payload",
                    JSObject(<<Member("from", JSString(Str(WalletAccountId))),
                               Member("provenTransaction",
                                      JSString(Str(proof.provenTransactionHex))),
                               Member("transactionId",
                                      JSString(Str(proof.transactionId)))>>))>>)

\* the V2 payload createPayment builds: resource is added last, and only
\* `if (resource)`
V2PaymentPayload(requirements, resource, proof) ==
  JSObject(<<Member("x402Version", JSNumber(X402Version)),
             Member("accepted", RequirementValue(requirements)),
             Member("payload",
                    JSObject(<<Member("from", JSString(Str(WalletAccountId))),
                               Member("provenTransaction",
                                      JSString(Str(proof.provenTransactionHex))),
                               Member("transactionId",
                                      JSString(Str(proof.transactionId)))>>))>>
           \o (IF IsSome(resource)
               THEN <<Member("resource", ResourceValue(ValueOf(resource)))>>
               ELSE <<>>))

\* the PaymentResult of createPayment
PaymentResult(requirements, resource, proof) ==
  [transactionId |-> proof.transactionId,
   paymentHeader |->
     encodePaymentHeader(V2PaymentPayload(requirements, resource, proof),
                         codec.hasBuffer).header,
   requirements |-> requirements]

\* outcome of handlePaymentRequired: null, a PaymentResult, or a rejection
Outcome(kind, value, err) == [kind |-> kind, value |-> value, err |-> err]
Pending == Outcome("pending", None, "")
Null == Outcome("null", None, "")
Resolved(paymentResult) == Outcome("result", Some(paymentResult), "")
Rejected(err) == Outcome("throw", None, err)
\* parsePaymentRequired called on its own resolves with the parsed body
Parsed(paymentRequired) == Outcome("parsed", paymentRequired, "")

\* the error the wallet stub rejects with, and createPayment's wrapping of it
WalletError == "wallet error"
ProofCreationError == "Failed to create P2ID proof: wallet error"

\* handlePaymentRequired from the moment response.json() has settled up to
\* its next await: null, a rejection, or the requirement whose proof it asks
\* the wallet for ("prove")
Negotiation(kind, requirement) == [kind |-> kind, requirement |-> requirement]

handlePaymentRequired(body, read, options) ==
  LET paymentRequired == parsePaymentRequired(body, read)
  IN  IF paymentRequired = None THEN Negotiation("null", None)
      ELSE LET accepts == ValueOf(ValueOf(paymentRequired).accepts)
               sel == selectRequirement(accepts, options)
           IN  IF sel.kind = "null" THEN Negotiation("null", None)
               ELSE IF sel.kind = "throw" THEN Negotiation("throw", None)
               \* createPayment: BigInt(requirements.amount) precedes the try
               ELSE IF ~BigInt(accepts[sel.index].amount).ok
                    THEN Negotiation("throw", None)
                    ELSE Negotiation("prove", Some(accepts[sel.index]))

(***************************************************************************)
(* midenFetch / midenFetchWithCallback                                     *)
(***************************************************************************)
\* the names of the x402 members of MidenFetchOptions
X402Options == {"maxPayment", "allowedFaucets", "allowedNetworks", "dryRun"}

\* the `options` argument: the x402 members and the RequestInit members
Options(c) == EnvOf(c).options @@ args.init

\* `const { maxPayment, allowedFaucets, allowedNetworks, dryRun,
\* ...fetchOptions } = options`
FetchOptions(options) == [k \in (DOMAIN options) \ X402Options |-> options[k]]

\* header names are case-insensitive: Headers keeps them in lower case
HeaderNames == {"Payment", "payment", "Accept"}
Lower(name) ==
  IF name \in {"Payment", "payment"} THEN "payment"
  ELSE IF name = "Accept" THEN "accept"
  ELSE name

\* a HeadersInit given as a list of <<name, value>> entries, and a Headers
\* object: per lower-case name the values given for it, in order
HeadersInit(entries) == [init |-> entries]
Headers(map) == [headers |-> map]

\* new Headers(init), init being undefined or a HeadersInit
NewHeaders(init) ==
  IF init = None THEN Headers(<<>>)
  ELSE LET entries == ValueOf(init).init
           names == {Lower(entries[i][1]) : i \in 1..Len(entries)}
           Named(n) == SelectSeq(entries, LAMBDA e : Lower(e[1]) = n)
       IN  Headers([n \in names |-> [i \in 1..Len(Named(n)) |-> Named(n)[i][2]]])

\* headers.set(name, value): the value replaces every value of that name
HeadersSet(headers, name, value) ==
  Headers([n \in (DOMAIN headers.headers) \cup {Lower(name)} |->
             IF n = Lower(name) THEN <<value>> ELSE headers.headers[n]])

\* slip: the Payment header is written into the caller's own headers
RetryHeaders_inPlace(init, paymentHeader) ==
  [retry |-> HeadersSet(NewHeaders(init), "Payment", paymentHeader),
   caller |-> Some(HeadersInit((IF init = None THEN <<>> ELSE ValueOf(init).init)
                                 \o << <<"Payment", paymentHeader>> >>))]

\* `const retryHeaders = new Headers(fetchOptions.headers);
\* retryHeaders.set("Payment", result.paymentHeader)`: the headers of the
\* retry, and the caller's headers afterwards
RetryHeaders(init, paymentHeader) ==
  [retry |-> HeadersSet(NewHeaders(init), "Payment", paymentHeader),
   caller |-> init]

\* a call of fetch(url, init)
Request(url, init) == [url |-> url, init |-> init]

\* the first request: `fetch(url, fetchOptions)`
FirstRequest(c) == Request(args.url, FetchOptions(Options(c)))

\* the retry: `fetch(url, { ...fetchOptions, headers: retryHeaders })`
RetryRequest(c, retryHeaders) ==
  Request(args.url, [FetchOptions(Options(c)) EXCEPT !.headers = Some(retryHeaders)])

\* the headers fetch() sends for a request: new Headers(init.headers)
SentHeaders(request) ==
  IF request.init.headers = None THEN Headers(<<>>)
  ELSE IF "init" \in DOMAIN ValueOf(request.init.headers)
  THEN NewHeaders(request.init.headers)
  ELSE ValueOf(request.init.headers)

\* the values of the Payment header a request carries
PaymentHeaders(request) ==
  IF "payment" \in DOMAIN SentHeaders(request).headers
  THEN SentHeaders(request).headers["payment"] ELSE <<>>

\* how a call settles
Settled(kind, resp, value, err) ==
  [kind |-> kind, resp |-> resp, value |-> value, err |-> err]
Unsettled == Settled("pending", None, None, "")
Returned(resp) == Settled("response", Some(resp), None, "")
Threw(err) == Settled("throw", None, None, err)

\* slip: only a 200 is passed through
NotPaymentRequired_only200(resp) == resp.status = 200

\* `response.status !== 402`
NotPaymentRequired(resp) == resp.status # PaymentRequiredStatus

\* slip: the dryRun option is dropped
DryRun_ignored(options) == FALSE

\* `if (dryRun) return response`
DryRun(options) == options.dryRun

\* the body of the Response the SDK builds when it cannot pay
SyntheticBody ==
  Body(TRUE, Some(X402Version), None, None, Some("No compatible payment scheme found"))

SyntheticResponse == Response(0, PaymentRequiredStatus, SyntheticBody)

\* slip: the consumed original is returned by both functions
NoResultResponse_original(c, resp) == resp

\* `if (!result) ...`: what each function returns when the handler gave null
NoResultResponse(c, resp) ==
  IF c \in MidenFetchCalls THEN SyntheticResponse ELSE resp

\* the error a caller's callback throws
CallbackError == "callback error"

\* slip: what the callback throws is caught and the retry goes ahead
onPaymentThrows_caught(c) == FALSE

\* `onPayment(result)` throws: the statement is in no try block
onPaymentThrows(c) == c = "midenFetchWithCallback" /\ ~EnvOf(c).callbackOk

\* the onPayment calls made with a PaymentResult (midenFetch has no callback)
onPayment(c, paymentResult) ==
  IF c = "midenFetchWithCallback" THEN <<paymentResult>> ELSE <<>>

\* slip: the callback is notified after the retry has been issued
RetryEvents_late(c) ==
  <<"request2">> \o (IF c = "midenFetchWithCallback" THEN <<"callback">> ELSE <<>>)

\* what happens, in order, once the handler has resolved with a result
RetryEvents(c) ==
  (IF c = "midenFetchWithCallback" THEN <<"callback">> ELSE <<>>) \o <<"request2">>

\* slip: a 402 answer to the retry is replaced by the SDK's own 402
FinalResponse_synthetic(resp) ==
  IF resp.status = PaymentRequiredStatus
  THEN Response(0, PaymentRequiredStatus,
                Body(TRUE, Some(X402Version), None, None,
                     Some("No compatible payment scheme found")))
  ELSE resp

\* what the call returns once the retry has been answered
FinalResponse(resp) == resp

Set(f, c, v) == [f EXCEPT ![c] = v]

\* the call settles
Settle(c, how, ev) ==
  /\ pc' = Set(pc, c, "done")
  /\ result' = Set(result, c, how)
  /\ events' = Set(events, c, ev)

\* handlePaymentRequired has settled with outcome o: the caller goes on to
\* its next await, or settles
Resume(c, o, ev) ==
  /\ handled' = Set(handled, c, o)
  /\ IF c \in HandlerCalls
     THEN /\ Settle(c, Settled(o.kind, None, o.value, o.err), ev)
          /\ UNCHANGED <<requests, callbacks, args>>
     ELSE IF o.kind = "throw"
     THEN /\ Settle(c, Threw(o.err), ev)
          /\ UNCHANGED <<requests, callbacks, args>>
     ELSE IF o.kind = "null"
     THEN /\ Settle(c, Returned(NoResultResponse(c, ValueOf(response[c]))), ev)
          /\ UNCHANGED <<requests, callbacks, args>>
     ELSE IF onPaymentThrows(c)
     THEN /\ callbacks' = Set(callbacks, c, callbacks[c] \o onPayment(c, ValueOf(o.value)))
          /\ Settle(c, Threw(CallbackError), ev \o <<"callback">>)
          /\ UNCHANGED <<requests, args>>
     ELSE LET h == RetryHeaders(args.init.headers, ValueOf(o.value).paymentHeader)
          IN  /\ callbacks' = Set(callbacks, c, callbacks[c] \o onPayment(c, ValueOf(o.value)))
              /\ requests' = Set(requests, c, Append(requests[c], RetryRequest(c, h.retry)))
              /\ args' = [args EXCEPT !.init.headers = h.caller]
              /\ events' = Set(events, c, ev \o RetryEvents(c))
              /\ pc' = Set(pc, c, "awaitFetch2")
              /\ UNCHANGED result

\* slip: `await` is missing before handler.handlePaymentRequired(response),
\* so the retry is issued as soon as the handler has been called
ReadBody_unawaited(c, resp, ev) ==
  /\ response' = Set(response, c, Some([resp EXCEPT !.bodyUsed = TRUE]))
  /\ pc' = Set(pc, c, IF c \in HandlerCalls THEN "awaitBody" ELSE "awaitFetch2")
  /\ events' = Set(events, c, ev \o <<"readBody">>
                                \o (IF c \in HandlerCalls THEN <<>> ELSE <<"request2">>))
  /\ requests' = IF c \in HandlerCalls THEN requests
                 ELSE Set(requests, c, Append(requests[c], RetryRequest(c, Headers(<<>>))))
  /\ UNCHANGED <<walletCalls, selected, callbacks, handled, result, args>>

\* parsePaymentRequired starts reading the body of a 402 response
ReadBody(c, resp, ev) ==
  /\ response' = Set(response, c, Some([resp EXCEPT !.bodyUsed = TRUE]))
  /\ pc' = Set(pc, c, "awaitBody")
  /\ events' = Set(events, c, ev \o <<"readBody">>)
  /\ UNCHANGED <<requests, walletCalls, selected, callbacks, handled, result, args>>

\* midenFetch(...) / midenFetchWithCallback(...) is called: first request
Call(c) ==
  /\ c \in FetchCalls \cup MidenFetchCalls
  /\ pc[c] = "start"
  /\ requests' = Set(requests, c, Append(requests[c], FirstRequest(c)))
  /\ events' = Set(events, c, events[c] \o <<"request1">>)
  /\ pc' = Set(pc, c, "awaitFetch1")
  /\ UNCHANGED <<env, response, walletCalls, selected, callbacks, handled, result>>
  /\ UNCHANGED <<selection, args, codec, wallet, bound>>

\* the first fetch() settles
FirstResponse(c) ==
  /\ c \in FetchCalls \cup MidenFetchCalls
  /\ pc[c] = "awaitFetch1"
  /\ LET resp == Response(1, EnvOf(c).first.status, EnvOf(c).first.body)
         ev == events[c] \o <<"response1">>
     IN  IF ~EnvOf(c).first.ok
         THEN /\ Settle(c, Threw("TransportError"), events[c] \o <<"reject1">>)
              /\ UNCHANGED <<response, requests, walletCalls, selected, callbacks, handled>>
         ELSE IF NotPaymentRequired(resp) \/ DryRun(EnvOf(c).options)
         THEN /\ response' = Set(response, c, Some(resp))
              /\ Settle(c, Returned(resp), ev)
              /\ UNCHANGED <<requests, walletCalls, selected, callbacks, handled>>
         ELSE ReadBody(c, resp, ev)
  /\ UNCHANGED env
  /\ UNCHANGED <<selection, args, codec, wallet, bound>>

\* handler.handlePaymentRequired(response) or
\* handler.parsePaymentRequired(response) is called directly
CallHandler(c) ==
  /\ c \in HandlerCalls
  /\ pc[c] = "start"
  /\ LET resp == Response(1, EnvOf(c).first.status, EnvOf(c).first.body)
     IN  IF NotPaymentRequired(resp)
         THEN /\ response' = Set(response, c, Some(resp))
              /\ Resume(c, Null, events[c])
              /\ UNCHANGED <<walletCalls, selected>>
         ELSE ReadBody(c, resp, events[c])
  /\ UNCHANGED env
  /\ UNCHANGED <<selection, codec, wallet, bound>>

\* slip: maxPayment is kept as a budget, and selecting an offer spends it
BodyRead_budget(c) ==
  /\ pc[c] = "awaitBody"
  /\ LET n == handlePaymentRequired(ValueOf(response[c]).body, EnvOf(c).first.bodyOk,
                                    ConstraintsOf(c))
         p == parsePaymentRequired(ValueOf(response[c]).body, EnvOf(c).first.bodyOk)
         ev == events[c] \o <<"parsed">>
     IN  IF c = "parsePaymentRequired"
         THEN /\ Resume(c, IF p = None THEN Null ELSE Parsed(p), ev)
              /\ UNCHANGED <<walletCalls, selected>>
         ELSE IF n.kind = "null"
         THEN Resume(c, Null, ev) /\ UNCHANGED <<walletCalls, selected>>
         ELSE IF n.kind = "throw"
         THEN Resume(c, Rejected("SyntaxError"), ev) /\ UNCHANGED <<walletCalls, selected>>
         ELSE /\ selected' = Set(selected, c, n.requirement)
              /\ walletCalls' = Set(walletCalls, c,
                                    Append(walletCalls[c], ProofRequest(ValueOf(n.requirement))))
              /\ events' = Set(events, c, ev \o <<"selected", "walletCall">>)
              /\ pc' = Set(pc, c, "awaitProof")
              /\ UNCHANGED <<requests, callbacks, handled, result, args>>
  /\ LET n == handlePaymentRequired(ValueOf(response[c]).body, EnvOf(c).first.bodyOk,
                                    ConstraintsOf(c))
     IN  env' = IF n.kind = "prove" /\ c # "parsePaymentRequired"
                    /\ MaxPaymentActive(env.options)
                THEN [env EXCEPT !.options.maxPayment =
                        Some(ValueOf(@) - BigInt(ValueOf(n.requirement).amount).val)]
                ELSE env
  /\ UNCHANGED response
  /\ UNCHANGED <<selection, codec, wallet, bound>>

\* response.json() settles: parse, select, and createPayment up to the
\* wallet call
BodyRead(c) ==
  /\ pc[c] = "awaitBody"
  /\ LET n == handlePaymentRequired(ValueOf(response[c]).body, EnvOf(c).first.bodyOk,
                                    ConstraintsOf(c))
         p == parsePaymentRequired(ValueOf(response[c]).body, EnvOf(c).first.bodyOk)
         ev == events[c] \o <<"parsed">>
     IN  IF c = "parsePaymentRequired"
         THEN /\ Resume(c, IF p = None THEN Null ELSE Parsed(p), ev)
              /\ UNCHANGED <<walletCalls, selected>>
         ELSE IF n.kind = "null"
         THEN Resume(c, Null, ev) /\ UNCHANGED <<walletCalls, selected>>
         ELSE IF n.kind = "throw"
         THEN Resume(c, Rejected("SyntaxError"), ev) /\ UNCHANGED <<walletCalls, selected>>
         ELSE /\ selected' = Set(selected, c, n.requirement)
              /\ walletCalls' = Set(walletCalls, c,
                                    Append(walletCalls[c], ProofRequest(ValueOf(n.requirement))))
              /\ events' = Set(events, c, ev \o <<"selected", "walletCall">>)
              /\ pc' = Set(pc, c, "awaitProof")
              /\ UNCHANGED <<requests, callbacks, handled, result, args>>
  /\ UNCHANGED <<env, response>>
  /\ UNCHANGED <<selection, codec, wallet, bound>>

\* slip: a failed proof is treated like "cannot pay"
ProofDone_swallowed(c) ==
  /\ pc[c] = "awaitProof"
  /\ IF EnvOf(c).walletOk
     THEN Resume(c, Resolved(PaymentResult(ValueOf(selected[c]),
                                           ValueOf(response[c]).body.resource,
                                           ProofOf(c))),
                 events[c] \o <<"walletDone">>)
     ELSE Resume(c, Null, events[c] \o <<"walletFailed">>)
  /\ UNCHANGED <<env, response, walletCalls, selected>>
  /\ UNCHANGED <<selection, codec, wallet, bound>>

\* wallet.createP2IDProof settles
ProofDone(c) ==
  /\ pc[c] = "awaitProof"
  /\ IF EnvOf(c).walletOk
     THEN Resume(c, Resolved(PaymentResult(ValueOf(selected[c]),
                                           ValueOf(response[c]).body.resource,
                                           ProofOf(c))),
                 events[c] \o <<"walletDone">>)
     ELSE Resume(c, Rejected(ProofCreationError),
                 events[c] \o <<"walletFailed">>)
  /\ UNCHANGED <<env, response, walletCalls, selected>>
  /\ UNCHANGED <<selection, codec, wallet, bound>>

\* slip: a 402 answer to the retry is negotiated again
RetryResponse_again(c) ==
  /\ pc[c] = "awaitFetch2"
  /\ IF ~EnvOf(c).retry.ok
     THEN /\ Settle(c, Threw("TransportError"), events[c] \o <<"reject2">>)
          /\ UNCHANGED <<response, requests, walletCalls, selected, callbacks, handled>>
     ELSE IF EnvOf(c).retry.status = PaymentRequiredStatus
     THEN ReadBody(c, Response(2, EnvOf(c).retry.status, EnvOf(c).retry.body),
                   events[c] \o <<"response2">>)
     ELSE /\ Settle(c, Returned(Response(2, EnvOf(c).retry.status, EnvOf(c).retry.body)),
                     events[c] \o <<"response2">>)
          /\ UNCHANGED <<response, requests, walletCalls, selected, callbacks, handled>>
  /\ UNCHANGED env
  /\ UNCHANGED <<selection, args, codec, wallet, bound>>

\* the retry fetch() settles
RetryResponse(c) ==
  /\ pc[c] = "awaitFetch2"
  /\ IF ~EnvOf(c).retry.ok
     THEN Settle(c, Threw("TransportError"), events[c] \o <<"reject2">>)
     ELSE Settle(c, Returned(FinalResponse(Response(2, EnvOf(c).retry.status, EnvOf(c).retry.body))),
                 events[c] \o <<"response2">>)
  /\ UNCHANGED <<env, response, requests, walletCalls, selected, callbacks, handled>>
  /\ UNCHANGED <<selection, args, codec, wallet, bound>>

(***************************************************************************)
(* selectRequirement applied on its own, twice: to the "base" arguments    *)
(* and to a "variant" of them (other constraints, or two offers swapped)   *)
(***************************************************************************)
\* longest list of offers handed to selectRequirement
MaxSelectOffers == 2

\* an offer on a network that is not a Miden network
OfferOtherNetwork == MidenPaymentRequirements("exact", "eip155:1", <<"5", "0", "0">>, "0xfaucet")

SelectorOffers == Offers \cup {OfferOtherNetwork}

\* PaymentHandlerOptions: the constraints
PaymentHandlerOptions ==
  [maxPayment : {None, Some(0), Some(100), Some(600)},
   allowedFaucets : {None, Some(<<>>), Some(<<"0xfaucet">>), Some(<<"0xfaucet", "0xother">>)},
   allowedNetworks : {None, Some(<<>>), Some(<<"miden:testnet">>)}]

\* the list with the offers at positions i and j exchanged
Swap(requirements, i, j) ==
  [k \in 1..Len(requirements) |->
     IF k = i THEN requirements[j] ELSE IF k = j THEN requirements[i] ELSE requirements[k]]

\* constraints that differ from `options` in at most one member
OneMemberChanged(options) ==
  {o \in PaymentHandlerOptions :
     Cardinality({f \in {"maxPayment", "allowedFaucets", "allowedNetworks"} :
                    o[f] # options[f]}) <= 1}

NotApplied == [kind |-> "pending", index |-> 0]

Application(requirements, options) ==
  [requirements |-> requirements, options |-> options, out |-> NotApplied]

NoSelection ==
  [k \in {"base", "variant"} |->
     Application(<<>>, [maxPayment |-> None, allowedFaucets |-> None, allowedNetworks |-> None])]

\* handler.selectRequirement(requirements) returns or throws
Select(k) ==
  /\ selection[k].out = NotApplied
  /\ selection' = [selection EXCEPT ![k].out =
                     selectRequirement(selection[k].requirements, selection[k].options)]
  /\ UNCHANGED <<env, pc, response, requests, walletCalls, selected, callbacks,
                 events, handled, result, args, codec, wallet, bound>>

\* the caller's arguments when the claim at hand is not about them
RequestInit(method, body, headers) == [method |-> method, body |-> body, headers |-> headers]
Args(url, init) == [url |-> url, init |-> init]
PlainArgs == Args("https://example.com/api", RequestInit(None, None, None))

\* the codec is not applied on its own; hasBuffer: the runtime is Node
CodecState(hasBuffer, at, payload, header, tamper, decoded) ==
  [hasBuffer |-> hasBuffer, pc |-> at, payload |-> payload, header |-> header,
   tamper |-> tamper, decoded |-> decoded]
CodecIdle(hasBuffer) ==
  CodecState(hasBuffer, "idle", JSNull, Header(TRUE, "", <<>>), [kind |-> "none", at |-> 0], None)

\* no wallet method is called.  A call of a wallet method: the method, the
\* await it is suspended at, its arguments, how it settled
WalletCalls == {"A", "B"}
WalletCall(op, at, input, outcome) ==
  [op |-> op, pc |-> at, input |-> input, outcome |-> outcome]
NoWalletCall == WalletCall("none", "idle", <<>>, Pending)
\* the scripted WebClient: does getAccount find the account in the local
\* store (found), or after an import (imported); does importAccountById
\* resolve (importOk); does proveTransaction ever settle (proves)
WebClient(found, imported, importOk, proves) ==
  [found |-> found, imported |-> imported, importOk |-> importOk, proves |-> proves]
WalletState(definition, client, calls) ==
  [definition |-> definition, client |-> client, calls |-> calls, log |-> <<>>]
WalletIdle ==
  WalletState(1, WebClient(TRUE, TRUE, TRUE, TRUE), [c \in WalletCalls |-> NoWalletCall])

\* createMidenFetch(wallet, defaultOptions) and the calls of the function it
\* returns: the defaults as they were given, the defaultOptions object as it
\* is now, the options given at each call, and how many calls were made
BoundFetch(defaultOptions, given) ==
  [created |-> defaultOptions, defaultOptions |-> defaultOptions,
   given |-> given, made |-> 0]
\* createMidenFetch is not used
Unbound == BoundFetch(<<>>, <<>>)

\* every call the model follows
CallIds == Calls \cup {SecondCall}

\* one call, of any of the three functions
InitCalls(active) ==
  /\ pc = [c \in CallIds |-> IF c \in active THEN "start" ELSE "idle"]
  /\ response = [c \in CallIds |-> None]
  /\ requests = [c \in CallIds |-> <<>>]
  /\ walletCalls = [c \in CallIds |-> <<>>]
  /\ selected = [c \in CallIds |-> None]
  /\ callbacks = [c \in CallIds |-> <<>>]
  /\ events = [c \in CallIds |-> <<>>]
  /\ handled = [c \in CallIds |-> Pending]
  /\ result = [c \in CallIds |-> Unsettled]

Init ==
  /\ env \in Envs(MaxOffers)
  /\ \E c \in Calls :
       /\ c \in HandlerCalls => env.first.ok
       /\ c # "midenFetchWithCallback" => env.callbackOk
       /\ InitCalls({c})
  /\ selection = NoSelection
  /\ args = PlainArgs
  /\ codec = CodecIdle(TRUE)
  /\ wallet = WalletIdle
  /\ bound = Unbound

\* midenFetch, midenFetchWithCallback and the handler called against the
\* same stubs, each on Response objects of its own
InitPair ==
  /\ env \in Envs(MaxPairOffers)
  /\ InitCalls(IF env.first.ok THEN FetchCalls \cup {"handlePaymentRequired"}
               ELSE FetchCalls)
  /\ selection = NoSelection
  /\ args = PlainArgs
  /\ codec = CodecIdle(TRUE)
  /\ wallet = WalletIdle
  /\ bound = Unbound

Next ==
  \E c \in Calls :
    \/ Call(c)
    \/ FirstResponse(c)
    \/ CallHandler(c)
    \/ BodyRead(c)
    \/ ProofDone(c)
    \/ RetryResponse(c)

Spec == Init /\ [][Next]_vars

\* the variant keeps the offers and changes one constraint, or keeps the
\* constraints and exchanges two offers
InitSelect ==
  /\ env = [options |-> [maxPayment |-> None, allowedFaucets |-> None,
                         allowedNetworks |-> None, dryRun |-> FALSE],
            first |-> TransportFailure, walletOk |-> TRUE, callbackOk |-> TRUE,
            retry |-> TransportFailure]
  /\ InitCalls({})
  /\ args = PlainArgs
  /\ codec = CodecIdle(TRUE)
  /\ wallet = WalletIdle
  /\ bound = Unbound
  /\ \E requirements \in SeqsUpTo(SelectorOffers, MaxSelectOffers),
        options \in PaymentHandlerOptions :
       \/ \E changed \in OneMemberChanged(options) :
            selection = [base |-> Application(requirements, options),
                         variant |-> Application(requirements, changed)]
       \/ \E i, j \in 1..Len(requirements) :
            /\ i < j
            /\ selection = [base |-> Application(requirements, options),
                            variant |-> Application(Swap(requirements, i, j), options)]

NextSelect == \E k \in {"base", "variant"} : Select(k)

SpecSelect == InitSelect /\ [][NextSelect]_vars

SpecPair == InitPair /\ [][Next]_vars

(***************************************************************************)
(* Two calls of midenFetch on one wallet, under way at the same time: each *)
(* has its own options and its own answers from the transport              *)
(***************************************************************************)
\* the constraints of a call: none, a bound, a bound and a faucet list
ConcurrentOptions ==
  {[maxPayment |-> None, allowedFaucets |-> None, allowedNetworks |-> None,
    dryRun |-> FALSE],
   [maxPayment |-> Some(600), allowedFaucets |-> None, allowedNetworks |-> None,
    dryRun |-> FALSE],
   [maxPayment |-> Some(600), allowedFaucets |-> Some(<<"0xfaucet">>),
    allowedNetworks |-> Some(<<"miden:testnet">>), dryRun |-> FALSE]}

\* the first answer to a call: a 200, or a 402 with one or two offers
ConcurrentAnswers ==
  {Answer(TRUE, 200, NotJsonBody, TRUE),
   Answer(TRUE, PaymentRequiredStatus, PaymentRequiredBody(<<OfferGood>>), TRUE),
   Answer(TRUE, PaymentRequiredStatus,
          PaymentRequiredBody(<<OfferPricey, OfferOtherFaucet>>), TRUE)}

ConcurrentEnvs ==
  [options : ConcurrentOptions,
   first : ConcurrentAnswers,
   walletOk : BOOLEAN,
   callbackOk : {TRUE},
   retry : {Answer(TRUE, 200, NotJsonBody, TRUE)}]

InitConcurrent ==
  /\ \E one \in ConcurrentEnvs, two \in ConcurrentEnvs :
       env = [options |-> one.options, first |-> one.first, walletOk |-> one.walletOk,
              callbackOk |-> TRUE, retry |-> one.retry, second |-> two]
  /\ InitCalls(MidenFetchCalls)
  /\ selection = NoSelection
  /\ args = PlainArgs
  /\ codec = CodecIdle(TRUE)
  /\ wallet = WalletIdle
  /\ bound = Unbound

NextConcurrent ==
  \E c \in MidenFetchCalls :
    \/ Call(c)
    \/ FirstResponse(c)
    \/ BodyRead(c)
    \/ ProofDone(c)
    \/ RetryResponse(c)

SpecConcurrent == InitConcurrent /\ [][NextConcurrent]_vars

(***************************************************************************)
(* 402 bodies whose accepts list holds elements that lack a member of a    *)
(* requirement, or have it with a JSON value of the wrong type             *)
(***************************************************************************)
\* longest accepts list of such a body
MaxShapeOffers == 2

\* the members MidenPaymentRequirements declares (types.ts:56-71), `extra`
\* apart
RequirementMembers ==
  {"scheme", "network", "amount", "payTo", "asset", "maxTimeoutSeconds"}

\* the offer without one member, and with a member of the wrong JSON type
Without(offer, member) == [k \in (DOMAIN offer) \ {member} |-> offer[k]]
WrongType(offer, member) == [mistyped |-> {member}] @@ offer

ShapeOffers ==
  {OfferGood}
    \cup {Without(OfferGood, m) : m \in RequirementMembers}
    \cup {WrongType(OfferGood, m) : m \in RequirementMembers}

ShapeCalls == {"midenFetch", "handlePaymentRequired", "parsePaymentRequired"}

InitShape ==
  /\ \E accepts \in SeqsUpTo(ShapeOffers, MaxShapeOffers) :
       env = [options |-> [maxPayment |-> None, allowedFaucets |-> None,
                           allowedNetworks |-> None, dryRun |-> FALSE],
              first |-> Answer(TRUE, PaymentRequiredStatus, PaymentRequiredBody(accepts), TRUE),
              walletOk |-> TRUE, callbackOk |-> TRUE,
              retry |-> Answer(TRUE, 200, NotJsonBody, TRUE)]
  /\ \E c \in ShapeCalls : InitCalls({c})
  /\ selection = NoSelection
  /\ args = PlainArgs
  /\ codec = CodecIdle(TRUE)
  /\ wallet = WalletIdle
  /\ bound = Unbound

NextShape ==
  \E c \in ShapeCalls :
    \/ Call(c)
    \/ FirstResponse(c)
    \/ CallHandler(c)
    \/ BodyRead(c)
    \/ ProofDone(c)
    \/ RetryResponse(c)

SpecShape == InitShape /\ [][NextShape]_vars

(***************************************************************************)
(* midenFetch / midenFetchWithCallback called with a RequestInit of the    *)
(* caller's: a method, a body, headers (a stale Payment header among them) *)
(***************************************************************************)
(* createMidenFetch                                                        *)
(***************************************************************************)
\* calls made of one bound function, one after the other
MaxBoundCalls == 2

\* an options object: the members that are present, each with its value (a
\* member given as undefined is present, with None); no object is <<>>
OptionOf(options, name) == IF name \in DOMAIN options THEN options[name] ELSE None

\* slip: the options of a call are merged into the defaults object itself
Spread_assign(defaultOptions, options) ==
  [merged |-> options @@ defaultOptions, defaultOptions |-> options @@ defaultOptions]

\* `{ ...defaultOptions, ...options }`: a new object with the members of the
\* defaults and, over them, every member of the options of this call
Spread(defaultOptions, options) ==
  [merged |-> options @@ defaultOptions, defaultOptions |-> defaultOptions]

\* midenFetch's destructuring of the options it is given: the constraints and
\* dryRun (undefined is falsy), and the rest, which goes to fetch()
Destructured(options) ==
  [x402 |-> [maxPayment |-> OptionOf(options, "maxPayment"),
             allowedFaucets |-> OptionOf(options, "allowedFaucets"),
             allowedNetworks |-> OptionOf(options, "allowedNetworks"),
             dryRun |-> "dryRun" \in DOMAIN options /\ options.dryRun],
   fetchOptions |-> RequestInit(OptionOf(options, "method"), OptionOf(options, "body"),
                                OptionOf(options, "headers"))]

\* the defaults createMidenFetch is given and the options of a call
DefaultOptions ==
  {<<>>,
   [dryRun |-> TRUE],
   [maxPayment |-> Some(600), method |-> Some("POST")],
   [maxPayment |-> Some(100), allowedFaucets |-> Some(<<"0xfaucet">>)]}
CallOptions ==
  {<<>>,
   [dryRun |-> FALSE],
   [maxPayment |-> None],
   [maxPayment |-> Some(100), method |-> Some("GET")],
   [allowedFaucets |-> Some(<<"0xother">>), headers |-> Some(HeadersInit(<< <<"Accept", "text/plain">> >>))]}

\* the function createMidenFetch returned is called: the options are merged
\* and midenFetch runs up to its first fetch()
BoundCall ==
  LET c == "midenFetch"
      s == Spread(bound.defaultOptions, bound.given[bound.made + 1])
      o == Destructured(s.merged)
  IN  /\ bound.made < Len(bound.given)
      /\ pc[c] \in {"idle", "done"}
      /\ bound' = [bound EXCEPT !.defaultOptions = s.defaultOptions, !.made = @ + 1]
      /\ env' = [env EXCEPT !.options = o.x402]
      /\ args' = [args EXCEPT !.init = o.fetchOptions]
      /\ requests' = Set(requests, c, <<Request(args.url, FetchOptions(o.x402 @@ o.fetchOptions))>>)
      /\ events' = Set(events, c, <<"request1">>)
      /\ pc' = Set(pc, c, "awaitFetch1")
      /\ response' = Set(response, c, None)
      /\ walletCalls' = Set(walletCalls, c, <<>>)
      /\ selected' = Set(selected, c, None)
      /\ callbacks' = Set(callbacks, c, <<>>)
      /\ handled' = Set(handled, c, Pending)
      /\ result' = Set(result, c, Unsettled)
      /\ UNCHANGED <<selection, codec, wallet>>

\* createMidenFetch(wallet, defaultOptions) has returned; the function will
\* be called MaxBoundCalls times against stubs that answer 200 or a 402
InitBound ==
  /\ env \in {e \in Envs(2) :
                /\ e.walletOk /\ e.callbackOk
                /\ e.options = [maxPayment |-> None, allowedFaucets |-> None,
                                allowedNetworks |-> None, dryRun |-> FALSE]
                /\ e.first \in ConcurrentAnswers
                /\ e.retry = Answer(TRUE, 200, NotJsonBody, TRUE)}
  /\ InitCalls({})
  /\ selection = NoSelection
  /\ args = PlainArgs
  /\ codec = CodecIdle(TRUE)
  /\ wallet = WalletIdle
  /\ \E d \in DefaultOptions, g \in [1..MaxBoundCalls -> CallOptions] :
       bound = BoundFetch(d, g)

NextBound ==
  \/ BoundCall
  \/ FirstResponse("midenFetch")
  \/ BodyRead("midenFetch")
  \/ ProofDone("midenFetch")
  \/ RetryResponse("midenFetch")

SpecBound == InitBound /\ [][NextBound]_vars

(***************************************************************************)
\* longest list of header entries the caller passes
MaxHeaders == 2

HeaderEntries == {<<"Accept", "text/plain">>, <<"Payment", "stale">>, <<"payment", "older">>}

CallerArgs ==
  {Args(url, RequestInit(method, body, headers)) :
     url \in {"https://example.com/api", "https://example.com/paid"},
     method \in {None, Some("POST")},
     body \in {None, Some("{}")},
     headers \in {None} \cup {Some(HeadersInit(e)) : e \in SeqsUpTo(HeaderEntries, MaxHeaders)}}

\* the stubs answer 200 or a payable 402; the x402 options are all absent,
\* all given, or dryRun
RetryEnvs ==
  {e \in Envs(1) :
     /\ e.walletOk
     /\ e.callbackOk
     /\ e.first \in {Answer(TRUE, 200, NotJsonBody, TRUE),
                     Answer(TRUE, PaymentRequiredStatus, PaymentRequiredBody(<<OfferGood>>), TRUE)}
     /\ e.options \in {[maxPayment |-> None, allowedFaucets |-> None,
                         allowedNetworks |-> None, dryRun |-> FALSE],
                        [maxPayment |-> Some(600), allowedFaucets |-> Some(<<"0xfaucet">>),
                         allowedNetworks |-> Some(<<"miden:testnet">>), dryRun |-> FALSE],
                        [maxPayment |-> None, allowedFaucets |-> None,
                         allowedNetworks |-> None, dryRun |-> TRUE]}}

InitRetry ==
  /\ env \in RetryEnvs
  /\ \E c \in FetchCalls : InitCalls({c})
  /\ selection = NoSelection
  /\ args \in CallerArgs
  /\ codec = CodecIdle(TRUE)
  /\ wallet = WalletIdle
  /\ bound = Unbound

NextRetry ==
  \E c \in FetchCalls :
    \/ Call(c)
    \/ FirstResponse(c)
    \/ BodyRead(c)
    \/ ProofDone(c)
    \/ RetryResponse(c)

SpecRetry == InitRetry /\ [][NextRetry]_vars

(***************************************************************************)
(* The codec applied on its own: a payload is encoded, and the header, or  *)
(* a string made from it, is decoded, in Node (Buffer) or in a browser     *)
(***************************************************************************)
\* how far from the start (insertions) or from the end (truncation) of a
\* header a caller's string differs from it
MaxTamperAt == 4

\* e-acute, the euro sign, a surrogate pair, a quote, a backslash, a slash
UnicodeText == <<233, 8364, 55357, 56832, 34, 92, 47>>
\* 2^64 as an amount string, 2^63 + 1 as a bigint
BigAmount ==
  <<"1", "8", "4", "4", "6", "7", "4", "4", "0", "7", "3", "7", "0", "9", "5", "5",
    "1", "6", "1", "6">>
BigValue == JSBigInt(<<9, 2, 2, 3, 3, 7, 2, 0, 3, 6, 8, 5, 4, 7, 7, 5, 8, 0, 9>>)

OfferUnicode ==
  [OfferGood EXCEPT !.extra = Some(JSObject(<<Member("note", JSString(UnicodeText)),
                                             Member("amount", BigValue)>>))]

CodecPayloads ==
  {V2PaymentPayload(OfferGood, Some(ResourceInfo), WalletProof),
   V2PaymentPayload(OfferOtherFaucet, None, WalletProof),
   V2PaymentPayload([OfferGood EXCEPT !.amount = BigAmount], None, WalletProof),
   V2PaymentPayload(OfferUnicode, Some(ResourceInfo), WalletProof)}

\* the strings a caller hands to decodePaymentHeader instead of a header:
\* a character that is not base64 or a space put in, the end cut off, or
\* the base64 of a text that is not JSON
Tamper(kind, at) == [kind |-> kind, at |-> at]
Untampered == Tamper("none", 0)
Tampers ==
  {Tamper(kind, at) : kind \in {"bang", "space", "truncate"}, at \in 1..MaxTamperAt}
    \cup {Tamper("text", 0)}

\* "not json"
NotJsonText == <<110, 111, 116, 32, 106, 115, 111, 110>>

Tampered(header, t) ==
  IF t.kind = "bang"
  THEN SubSeq(header, 1, t.at - 1) \o <<"!">> \o SubSeq(header, t.at, Len(header))
  ELSE IF t.kind = "space"
  THEN SubSeq(header, 1, t.at - 1) \o <<" ">> \o SubSeq(header, t.at, Len(header))
  ELSE IF t.kind = "truncate"
  THEN SubSeq(header, 1, Len(header) - t.at)
  ELSE BytesToBase64(NotJsonText, 1)

\* encodePaymentHeader(payload) returns or throws
Encode ==
  /\ codec.pc = "start"
  /\ LET header == encodePaymentHeader(codec.payload, codec.hasBuffer)
     IN  codec' = [codec EXCEPT !.header = header,
                                !.pc = IF header.ok THEN "encoded" ELSE "threw"]
  /\ UNCHANGED <<env, pc, response, requests, walletCalls, selected, callbacks,
                 events, handled, result, selection, args, wallet, bound>>

\* the caller makes another string of the header
Corrupt(t) ==
  /\ codec.pc = "encoded"
  /\ codec.tamper = Untampered
  /\ codec' = [codec EXCEPT !.header.header = Tampered(codec.header.header, t),
                            !.tamper = t]
  /\ UNCHANGED <<env, pc, response, requests, walletCalls, selected, callbacks,
                 events, handled, result, selection, args, wallet, bound>>

\* decodePaymentHeader(header) returns or throws
Decode ==
  /\ codec.pc = "encoded"
  /\ codec' = [codec EXCEPT !.decoded =
                              Some(decodePaymentHeader(codec.header.header, codec.hasBuffer)),
                            !.pc = "decoded"]
  /\ UNCHANGED <<env, pc, response, requests, walletCalls, selected, callbacks,
                 events, handled, result, selection, args, wallet, bound>>

InitCodec ==
  /\ env = [options |-> [maxPayment |-> None, allowedFaucets |-> None,
                         allowedNetworks |-> None, dryRun |-> FALSE],
            first |-> TransportFailure, walletOk |-> TRUE, callbackOk |-> TRUE,
            retry |-> TransportFailure]
  /\ InitCalls({})
  /\ selection = NoSelection
  /\ args = PlainArgs
  /\ wallet = WalletIdle
  /\ bound = Unbound
  /\ \E hasBuffer \in BOOLEAN, payload \in CodecPayloads :
       codec = CodecState(hasBuffer, "start", payload, Header(TRUE, "", <<>>), Untampered, None)

NextCodec ==
  \/ Encode
  \/ \E t \in Tampers : Corrupt(t)
  \/ Decode

SpecCodec == InitCodec /\ [][NextCodec]_vars

(***************************************************************************)
(* MidenAgentWallet (src/src/wallet.ts) on a scripted WebClient.           *)
(* wallet.ts holds two definitions of the class, one after the other       *)
(* (lines 52-375 and 441-707); wallet.definition is the one in force.      *)
(* wallet.log is what the client was asked to do and what it settled, in   *)
(* order.                                                                  *)
(***************************************************************************)
HexDigits ==
  {"0", "1", "2", "3", "4", "5", "6", "7", "8", "9",
   "a", "b", "c", "d", "e", "f", "A", "B", "C", "D", "E", "F"}

\* HEX_RE = /^(0x)?[0-9a-fA-F]+$/ applied with .test()
AllHex(id) == Len(id) > 0 /\ \A i \in 1..Len(id) : id[i] \in HexDigits
HEX_RE(id) ==
  \/ AllHex(id)
  \/ Len(id) >= 2 /\ id[1] = "0" /\ id[2] = "x" /\ AllHex(SubSeq(id, 3, Len(id)))

\* AccountId.fromHex (of the Miden SDK) throws on what is not a hex id
fromHex(id) == [ok |-> HEX_RE(id), err |-> "invalid hex"]

\* the first definition's input validation of sendPayment: the message
\* thrown, "" when the inputs pass
Validation(recipientId, faucetId, amount) ==
  IF amount <= 0 THEN "Amount must be positive"
  ELSE IF ~HEX_RE(recipientId) THEN "Invalid hex format for recipientId"
  ELSE IF ~HEX_RE(faucetId) THEN "Invalid hex format for faucetId"
  ELSE ""

\* createP2IDProof tests recipientId once more, as payTo
ProofValidation(recipientId, faucetId, amount) ==
  IF Validation(recipientId, faucetId, amount) # ""
  THEN Validation(recipientId, faucetId, amount)
  ELSE IF ~HEX_RE(recipientId) THEN "Invalid hex format for payTo"
  ELSE ""

\* what the method throws before it reaches the client, "" when nothing:
\* the second definition validates nothing and lets fromHex throw
BeforeClient(definition, message, recipientId, faucetId) ==
  IF definition = 1 /\ message # "" THEN message
  ELSE IF fromHex(recipientId).ok /\ fromHex(faucetId).ok THEN ""
  ELSE IF definition = 1 THEN "Invalid account ID: invalid hex"
  ELSE "invalid hex"

NotFoundError == "Account not found in local store or on-chain. Private accounts can only be restored from the same browser/store."
NotImplementedError == "waitForTransaction is not yet implemented. Track transaction confirmation manually via syncState()."
NotConfirmedError == "Transaction not confirmed within timeoutMs"
ImportError == "import failed"

\* the time between the two Date.now() calls of waitForTransaction
Elapsed == 0

Event(c, op, phase) == [call |-> c, op |-> op, phase |-> phase]
Asked(c, op) == Event(c, op, "call")
Answered(c, op) == Event(c, op, "settled")

\* the call goes on to its next await, having asked the client for `asked`
\* after the client answered `answered`
Proceed(c, answered, asked, at) ==
  wallet' = [wallet EXCEPT !.calls[c].pc = at,
                           !.log = wallet.log \o answered \o asked]

\* the call settles
Finish(c, answered, outcome) ==
  wallet' = [wallet EXCEPT !.calls[c].pc = "done",
                           !.calls[c].outcome = outcome,
                           !.log = wallet.log \o answered]

At(c, op, at) == wallet.calls[c].op = op /\ wallet.calls[c].pc = at

FlowUnchanged ==
  UNCHANGED <<env, pc, response, requests, walletCalls, selected, callbacks,
              events, handled, result, selection, args, codec, bound>>

\* wallet.sendPayment(recipientId, faucetId, amount) is called
sendPayment(c) ==
  /\ At(c, "sendPayment", "start")
  /\ LET in == wallet.calls[c].input
         thrown == BeforeClient(wallet.definition,
                                Validation(in.recipientId, in.faucetId, in.amount),
                                in.recipientId, in.faucetId)
     IN  IF thrown # "" THEN Finish(c, <<>>, Rejected(thrown))
         ELSE Proceed(c, <<>>, <<Asked(c, "newSendTransactionRequest"),
                                 Asked(c, "submitNewTransaction")>>, "awaitSubmit")
  /\ FlowUnchanged

\* client.submitNewTransaction settles
SubmitSettled(c) ==
  /\ wallet.calls[c].pc = "awaitSubmit"
  /\ Finish(c, <<Answered(c, "submitNewTransaction")>>, Outcome("result", Some("tx"), ""))
  /\ FlowUnchanged

\* wallet.createP2IDProof(recipientId, faucetId, amount) is called
createP2IDProof(c) ==
  /\ At(c, "createP2IDProof", "start")
  /\ LET in == wallet.calls[c].input
         thrown == BeforeClient(wallet.definition,
                                ProofValidation(in.recipientId, in.faucetId, in.amount),
                                in.recipientId, in.faucetId)
     IN  IF thrown # "" THEN Finish(c, <<>>, Rejected(thrown))
         ELSE Proceed(c, <<>>, <<Asked(c, "newSendTransactionRequest"),
                                 Asked(c, "executeTransaction")>>, "awaitExecute")
  /\ FlowUnchanged

\* slip: the executed transaction is submitted
ExecuteSettled_submits(c) ==
  /\ wallet.calls[c].pc = "awaitExecute"
  /\ Proceed(c, <<Answered(c, "executeTransaction")>>,
             <<Asked(c, "submitNewTransaction")>>, "awaitSubmit")
  /\ FlowUnchanged

\* client.executeTransaction settles: the result is handed to proveTransaction
ExecuteSettled(c) ==
  /\ wallet.calls[c].pc = "awaitExecute"
  /\ Proceed(c, <<Answered(c, "executeTransaction")>>,
             <<Asked(c, "proveTransaction")>>, "awaitProve")
  /\ FlowUnchanged

\* client.proveTransaction settles, if it ever does
ProveSettled(c) ==
  /\ wallet.calls[c].pc = "awaitProve"
  /\ wallet.client.proves
  /\ Finish(c, <<Answered(c, "proveTransaction")>>, Outcome("result", Some(WalletProof), ""))
  /\ FlowUnchanged

\* MidenAgentWallet.restore(accountIdHex) is called
restore(c) ==
  /\ At(c, "restore", "start")
  /\ Proceed(c, <<>>, <<Asked(c, "createClient")>>, "awaitClient")
  /\ FlowUnchanged

\* WebClient.createClient settles: AccountId.fromHex, then the first lookup
ClientCreated(c) ==
  /\ wallet.calls[c].pc = "awaitClient"
  /\ IF ~fromHex(wallet.calls[c].input.accountIdHex).ok
     THEN Finish(c, <<Answered(c, "createClient")>>,
                 Rejected(IF wallet.definition = 1 THEN "Invalid account ID: invalid hex"
                          ELSE "invalid hex"))
     ELSE Proceed(c, <<Answered(c, "createClient")>>, <<Asked(c, "getAccount")>>,
                  "awaitLookup")
  /\ FlowUnchanged

\* slip: the account is imported whether or not the local store has it
FirstLookupSettled_imports(c) ==
  /\ wallet.calls[c].pc = "awaitLookup"
  /\ Proceed(c, <<Answered(c, "getAccount")>>, <<Asked(c, "importAccountById")>>,
             "awaitImport")
  /\ FlowUnchanged

\* the first client.getAccount settles
FirstLookupSettled(c) ==
  /\ wallet.calls[c].pc = "awaitLookup"
  /\ IF wallet.client.found
     THEN Finish(c, <<Answered(c, "getAccount")>>,
                 Outcome("result", Some([accountId |-> wallet.calls[c].input.accountIdHex]), ""))
     ELSE Proceed(c, <<Answered(c, "getAccount")>>, <<Asked(c, "importAccountById")>>,
                  "awaitImport")
  /\ FlowUnchanged

\* client.importAccountById settles
ImportSettled(c) ==
  /\ wallet.calls[c].pc = "awaitImport"
  /\ IF wallet.client.importOk
     THEN Proceed(c, <<Answered(c, "importAccountById")>>, <<Asked(c, "syncState")>>,
                  "awaitSync")
     ELSE Finish(c, <<Answered(c, "importAccountById")>>, Rejected(ImportError))
  /\ FlowUnchanged

\* client.syncState settles: restore looks the account up again,
\* waitForTransaction (second definition) returns
SyncSettled(c) ==
  /\ wallet.calls[c].pc = "awaitSync"
  /\ IF wallet.calls[c].op = "restore"
     THEN Proceed(c, <<Answered(c, "syncState")>>, <<Asked(c, "getAccount")>>,
                  "awaitSecondLookup")
     ELSE Finish(c, <<Answered(c, "syncState")>>, Outcome("result", None, ""))
  /\ FlowUnchanged

\* the second client.getAccount settles
SecondLookupSettled(c) ==
  /\ wallet.calls[c].pc = "awaitSecondLookup"
  /\ IF wallet.client.imported
     THEN Finish(c, <<Answered(c, "getAccount")>>,
                 Outcome("result", Some([accountId |-> wallet.calls[c].input.accountIdHex]), ""))
     ELSE Finish(c, <<Answered(c, "getAccount")>>, Rejected(NotFoundError))
  /\ FlowUnchanged

\* wallet.waitForTransaction(txId, timeoutMs) is called
waitForTransaction(c) ==
  /\ At(c, "waitForTransaction", "start")
  /\ IF wallet.definition = 1 THEN Finish(c, <<>>, Rejected(NotImplementedError))
     ELSE IF Elapsed < wallet.calls[c].input.timeoutMs
     THEN Proceed(c, <<>>, <<Asked(c, "syncState")>>, "awaitSync")
     ELSE Finish(c, <<>>, Rejected(NotConfirmedError))
  /\ FlowUnchanged

\* the ids, amounts and timeouts the methods are called with
WalletIds ==
  {<<"0", "x", "a", "B", "1">>, <<"a", "f">>, <<"0", "x">>, <<"0", "x", "g">>, <<>>}
Amounts == {-1, 0, 100}
TimeoutsMs == {0, 60000}
TransactionIds == {"tx", "0xabc"}

PaymentInput(recipientId, faucetId, amount) ==
  [recipientId |-> recipientId, faucetId |-> faucetId, amount |-> amount]
PaymentInputs ==
  {PaymentInput(r, f, a) : r \in WalletIds, f \in WalletIds, a \in Amounts}
GoodPayment == PaymentInput(<<"0", "x", "a", "B", "1">>, <<"a", "f">>, 100)

WebClients ==
  {WebClient(found, imported, importOk, proves) :
     found \in BOOLEAN, imported \in BOOLEAN, importOk \in BOOLEAN, proves \in BOOLEAN}

Started(op, input) == WalletCall(op, "start", input, Pending)

\* one call of a method, or two sendPayment calls at once
WalletScenarios ==
  {[A |-> Started("sendPayment", GoodPayment), B |-> Started("sendPayment", GoodPayment)]}
    \cup {[A |-> Started(op, in), B |-> NoWalletCall] :
            op \in {"sendPayment", "createP2IDProof"}, in \in PaymentInputs}
    \cup {[A |-> Started("restore", [accountIdHex |-> id]), B |-> NoWalletCall] :
            id \in WalletIds}
    \cup {[A |-> Started("waitForTransaction", [txId |-> tx, timeoutMs |-> ms]),
           B |-> NoWalletCall] : tx \in TransactionIds, ms \in TimeoutsMs}

InitWallet ==
  /\ env = [options |-> [maxPayment |-> None, allowedFaucets |-> None,
                         allowedNetworks |-> None, dryRun |-> FALSE],
            first |-> TransportFailure, walletOk |-> TRUE, callbackOk |-> TRUE,
            retry |-> TransportFailure]
  /\ InitCalls({})
  /\ selection = NoSelection
  /\ args = PlainArgs
  /\ codec = CodecIdle(TRUE)
  /\ \E definition \in {1, 2}, client \in WebClients, calls \in WalletScenarios :
       wallet = WalletState(definition, client, calls)
  /\ bound = Unbound

WalletStep(c) ==
  \/ sendPayment(c)
  \/ SubmitSettled(c)
  \/ createP2IDProof(c)
  \/ ExecuteSettled(c)
  \/ ProveSettled(c)
  \/ restore(c)
  \/ ClientCreated(c)
  \/ FirstLookupSettled(c)
  \/ ImportSettled(c)
  \/ SyncSettled(c)
  \/ SecondLookupSettled(c)
  \/ waitForTransaction(c)

NextWallet == \E c \in WalletCalls : WalletStep(c)

SpecWallet == InitWallet /\ [][NextWallet]_vars

(***************************************************************************)
(* midenFetch on a MidenAgentWallet: the handler's call of                 *)
(* wallet.createP2IDProof is served by the class, not by a stub.           *)
(***************************************************************************)
\* the characters of an account id, from its code units
UnitCharacter ==
  48 :> "0" @@ 49 :> "1" @@ 66 :> "B" @@ 97 :> "a" @@ 102 :> "f" @@ 120 :> "x"
Characters(s) == [i \in 1..Len(Str(s)) |-> UnitCharacter[Str(s)[i]]]

\* an offer in hex ids, for `amount`
OfferHex(amount) ==
  [MidenPaymentRequirements("exact", "miden:testnet", amount, "af")
     EXCEPT !.payTo = "0xaB1"]
\* offers of nothing, of a negative amount, and of 500
ZeroOffers == {OfferHex(<<"0">>), OfferHex(<<"-", "5">>), OfferHex(<<"5", "0", "0">>)}

\* createPayment's catch: `Failed to create P2ID proof: ${err.message}`
ProofFailure(message) ==
  CASE message = "Amount must be positive" ->
         "Failed to create P2ID proof: Amount must be positive"
    [] message = "Invalid hex format for recipientId" ->
         "Failed to create P2ID proof: Invalid hex format for recipientId"
    [] message = "Invalid hex format for faucetId" ->
         "Failed to create P2ID proof: Invalid hex format for faucetId"
    [] OTHER -> "Failed to create P2ID proof: invalid hex"

\* createPayment calls this.wallet.createP2IDProof(payTo, asset, amount,
\* "public") with the arguments the handler computed
ProofStarted(c) ==
  /\ pc[c] = "awaitProof"
  /\ wallet.calls["A"] = NoWalletCall
  /\ LET in == walletCalls[c][Len(walletCalls[c])]
     IN  wallet' = [wallet EXCEPT !.calls["A"] =
                      Started("createP2IDProof",
                              PaymentInput(Characters(in.recipientId),
                                           Characters(in.faucetId), in.amount))]
  /\ FlowUnchanged

\* the wallet's createP2IDProof has settled: createPayment builds the
\* PaymentResult of the proof, or throws the wrapped error
ProofSettled(c) ==
  /\ pc[c] = "awaitProof"
  /\ wallet.calls["A"].pc = "done"
  /\ LET o == wallet.calls["A"].outcome
     IN  IF o.kind = "result"
         THEN Resume(c, Resolved(PaymentResult(ValueOf(selected[c]),
                                               ValueOf(response[c]).body.resource,
                                               ValueOf(o.value))),
                     events[c] \o <<"walletDone">>)
         ELSE Resume(c, Rejected(ProofFailure(o.err)), events[c] \o <<"walletFailed">>)
  /\ UNCHANGED <<env, response, walletCalls, selected>>
  /\ UNCHANGED <<selection, codec, wallet, bound>>

\* the server's 402 offers one of ZeroOffers; either definition of the
\* class is the wallet
InitZero ==
  /\ env \in [options : {o \in MidenFetchOptions : ~o.dryRun /\ o.allowedFaucets = None},
               first : {Answer(TRUE, PaymentRequiredStatus, PaymentRequiredBody(<<offer>>), TRUE) :
                          offer \in ZeroOffers},
               walletOk : {TRUE},
               callbackOk : {TRUE},
               retry : RetryAnswers]
  /\ \E c \in FetchCalls : InitCalls({c})
  /\ selection = NoSelection
  /\ args = PlainArgs
  /\ codec = CodecIdle(TRUE)
  /\ \E definition \in {1, 2} :
       wallet = WalletState(definition, WebClient(TRUE, TRUE, TRUE, TRUE),
                            [c \in WalletCalls |-> NoWalletCall])
  /\ bound = Unbound

NextZero ==
  \/ \E c \in FetchCalls :
       \/ Call(c)
       \/ FirstResponse(c)
       \/ BodyRead(c)
       \/ ProofStarted(c)
       \/ ProofSettled(c)
       \/ RetryResponse(c)
  \/ createP2IDProof("A")
  \/ ExecuteSettled("A")
  \/ ProveSettled("A")

SpecZero == InitZero /\ [][NextZero]_vars

(***************************************************************************)
(* Properties                                                              *)
(***************************************************************************)
Done(c) == pc[c] = "done"
Has(ev, e) == \E i \in 1..Len(ev) : ev[i] = e
Count(ev, e) == Cardinality({i \in 1..Len(ev) : ev[i] = e})
Before(ev, a, b) == \A i, j \in 1..Len(ev) : (ev[i] = a /\ ev[j] = b) => i < j

\* the first request was answered, with a 402
First402 == env.first.ok /\ env.first.status = PaymentRequiredStatus
\* the Response object the first fetch() resolved with, untouched
FirstObject == Response(1, env.first.status, env.first.body)
\* the Response object the retry fetch() resolved with, untouched
RetryObject == Response(2, env.retry.status, env.retry.body)

\* C1: in every state of every call of midenFetch or
\* midenFetchWithCallback, at most two requests have been issued and the
\* wallet's createP2IDProof has been invoked at most once.
C1_AtMostTwoRequestsOneProof ==
  \A c \in FetchCalls :
    /\ Len(requests[c]) <= 2
    /\ Len(walletCalls[c]) <= 1
    /\ Count(events[c], "request1") + Count(events[c], "request2") = Len(requests[c])

\* a call that paid and whose retry was answered by another 402
C1_Witness ==
  \E c \in FetchCalls :
    /\ Done(c)
    /\ Len(requests[c]) = 2
    /\ Len(walletCalls[c]) = 1
    /\ env.retry.ok /\ env.retry.status = PaymentRequiredStatus

\* C2: when the first response is not a 402, midenFetch returns that very
\* Response with its body unread, after exactly one request and without
\* any wallet call, whatever the options are; it never gets to the handler.
C2_NonPaymentPassthrough ==
  (env.first.ok /\ env.first.status # PaymentRequiredStatus) =>
    /\ pc["midenFetch"] \in {"idle", "start", "awaitFetch1", "done"}
    /\ Done("midenFetch") =>
         /\ result["midenFetch"] = Returned(FirstObject)
         /\ Len(requests["midenFetch"]) = 1
         /\ walletCalls["midenFetch"] = <<>>
         /\ ~Has(events["midenFetch"], "readBody")
         /\ handled["midenFetch"] = Pending

\* a 500 passed through although the caller allows payments
C2_Witness ==
  /\ Done("midenFetch")
  /\ env.first.ok /\ env.first.status = 500
  /\ ~env.options.dryRun
  /\ result["midenFetch"].kind = "response"

\* C3: with dryRun set and a 402 as first response, midenFetch returns that
\* very Response with its body unread, after exactly one request, without
\* reading or parsing the body and without any wallet call.
C3_DryRunReturnsThe402 ==
  (First402 /\ env.options.dryRun) =>
    /\ pc["midenFetch"] \in {"idle", "start", "awaitFetch1", "done"}
    /\ Done("midenFetch") =>
         /\ result["midenFetch"] = Returned(FirstObject)
         /\ Len(requests["midenFetch"]) = 1
         /\ walletCalls["midenFetch"] = <<>>
         /\ ~Has(events["midenFetch"], "readBody")
         /\ ~Has(events["midenFetch"], "parsed")
         /\ handled["midenFetch"] = Pending

\* a dry run on a 402 that carries an offer the caller could have paid
C3_Witness ==
  /\ Done("midenFetch")
  /\ First402 /\ env.options.dryRun
  /\ env.first.body = PaymentRequiredBody(<<OfferGood>>)
  /\ result["midenFetch"].kind = "response"

\* the body is JSON of version 2 with an accepts list, and was read whole
ValidV2Body ==
  /\ env.first.bodyOk
  /\ env.first.body.isJson
  /\ env.first.body.x402Version = Some(X402Version)
  /\ IsSome(env.first.body.accepts)
  /\ \A i \in 1..Len(ValueOf(env.first.body.accepts)) :
       "payTo" \in DOMAIN ValueOf(env.first.body.accepts)[i]

\* the offers of the first response's body
Accepts == ValueOf(env.first.body.accepts)

\* an offer the caller's constraints accept: scheme "exact", network and
\* asset allowed, amount an integer within an active maxPayment bound
Compatible(offer, options) ==
  /\ offer.scheme = "exact"
  /\ ~NotAllowed(options.allowedNetworks, offer.network)
  /\ ~NotAllowed(options.allowedFaucets, offer.asset)
  /\ MaxPaymentActive(options) =>
       /\ BigInt(offer.amount).ok
       /\ BigInt(offer.amount).val <= ValueOf(options.maxPayment)

\* C4: a valid version-2 402 with at least one compatible offer, dryRun
\* not set, and a wallet that succeeds: midenFetch issues exactly two
\* requests, invokes createP2IDProof exactly once, sends the second request
\* with the negotiated paymentHeader as Payment header, and returns the
\* second request's response.
C4_PaysAndRetries ==
  ( /\ Done("midenFetch")
    /\ First402 /\ ValidV2Body
    /\ \E i \in 1..Len(Accepts) : Compatible(Accepts[i], env.options)
    /\ ~env.options.dryRun
    /\ env.walletOk
    /\ env.retry.ok )
  =>
    /\ Len(requests["midenFetch"]) = 2
    /\ Len(walletCalls["midenFetch"]) = 1
    /\ handled["midenFetch"].kind = "result"
    /\ PaymentHeaders(requests["midenFetch"][2])
         = <<ValueOf(handled["midenFetch"].value).paymentHeader>>
    /\ result["midenFetch"] = Returned(RetryObject)

\* C5: the answer to the retry is the call's result whatever its status; a
\* 402 answer is returned as it came, body unread, and the call is over:
\* one negotiation, one wallet call, two requests.
C5_RetryAnswerIsFinal ==
  \A c \in FetchCalls :
    Has(events[c], "response2") =>
      /\ Done(c)
      /\ result[c] = Returned(RetryObject)
      /\ Len(requests[c]) = 2
      /\ Len(walletCalls[c]) = 1
      /\ Count(events[c], "readBody") = 1
      /\ Count(events[c], "parsed") = 1

\* the retry was answered by a 402, which the caller got
C5_Witness ==
  \E c \in FetchCalls :
    /\ Done(c)
    /\ Has(events[c], "response2")
    /\ env.retry.status = PaymentRequiredStatus
    /\ result[c].kind = "response"
    /\ ValueOf(result[c].resp).status = PaymentRequiredStatus

C7_OriginalWhenNoResult ==
  ( /\ Done("midenFetch")
    /\ First402 /\ ValidV2Body
    /\ handled["midenFetch"] = Null )
  =>
    /\ result["midenFetch"].kind = "response"
    /\ ValueOf(result["midenFetch"].resp).id = 1
    /\ ~ValueOf(result["midenFetch"].resp).bodyUsed
    /\ ValueOf(result["midenFetch"].resp).body.x402Version = Some(2)
    /\ ValueOf(result["midenFetch"].resp).body.accepts = env.first.body.accepts
    /\ walletCalls["midenFetch"] = <<>>

\* C8: midenFetchWithCallback invokes onPayment at most once, with the
\* PaymentResult of its own negotiation, after createP2IDProof has completed
\* and before the retry request is issued; once when the negotiation
\* succeeded, never when the first response is not a 402, when dryRun is
\* set, when the negotiation yields null or when the wallet fails.
C8_CallbackOnceBeforeRetry ==
  LET c == "midenFetchWithCallback"
  IN  /\ Len(callbacks[c]) <= 1
      /\ Count(events[c], "callback") = Len(callbacks[c])
      /\ callbacks[c] # <<>> =>
           /\ handled[c].kind = "result"
           /\ callbacks[c][1] = ValueOf(handled[c].value)
           /\ Has(events[c], "walletDone")
      /\ Before(events[c], "walletDone", "callback")
      /\ Before(events[c], "callback", "request2")
      /\ Has(events[c], "request2") => Len(callbacks[c]) = 1
      /\ handled[c].kind = "result" => Len(callbacks[c]) = 1
      /\ ( \/ ~First402
           \/ env.options.dryRun
           \/ handled[c].kind \in {"null", "throw"} ) => callbacks[c] = <<>>
      /\ callbacks["midenFetch"] = <<>>

\* the callback got the payment and the retried response came back
C8_Witness ==
  /\ Done("midenFetchWithCallback")
  /\ Len(callbacks["midenFetchWithCallback"]) = 1
  /\ callbacks["midenFetchWithCallback"][1].transactionId = "tx-fetch-001"
  /\ result["midenFetchWithCallback"] = Returned(RetryObject)

\* two results a caller cannot tell apart: both rejections with the same
\* error, or responses of the same status and body, equally readable
Equivalent(r1, r2) ==
  /\ r1.kind = r2.kind
  /\ r1.err = r2.err
  /\ r1.kind = "response" =>
       /\ ValueOf(r1.resp).status = ValueOf(r2.resp).status
       /\ ValueOf(r1.resp).body = ValueOf(r2.resp).body
       /\ ValueOf(r1.resp).bodyUsed = ValueOf(r2.resp).bodyUsed

\* C9: against the same first response, options, wallet and retry answer,
\* midenFetchWithCallback issues the same requests and wallet calls as
\* midenFetch and returns an equivalent response; when the negotiation
\* yields null it too returns a built 402 with a readable
\* {error, x402Version} body, not the original whose body is consumed.
C9_CallbackVariantAgrees ==
  (Done("midenFetch") /\ Done("midenFetchWithCallback")) =>
    /\ requests["midenFetchWithCallback"] = requests["midenFetch"]
    /\ walletCalls["midenFetchWithCallback"] = walletCalls["midenFetch"]
    /\ Equivalent(result["midenFetchWithCallback"], result["midenFetch"])
    /\ handled["midenFetchWithCallback"] = Null =>
         /\ ValueOf(result["midenFetchWithCallback"].resp).body = SyntheticBody
         /\ ~ValueOf(result["midenFetchWithCallback"].resp).bodyUsed

\* C10: a handlePaymentRequired call invokes createP2IDProof 0 or 1 times:
\* 0 times, with result null, when the response is not a 402, when the body
\* fails parsing or validation, or when selectRequirement returns null;
\* exactly once in every other case.
C10_OneProofPerNegotiation ==
  LET h == "handlePaymentRequired"
      noOffer ==
        \/ env.first.status # PaymentRequiredStatus
        \/ parsePaymentRequired(env.first.body, env.first.bodyOk) = None
        \/ selectRequirement(Accepts, env.options).kind = "null"
  IN  /\ Len(walletCalls[h]) <= 1
      /\ Done(h) =>
           /\ noOffer => (walletCalls[h] = <<>> /\ result[h].kind = "null")
           /\ ~noOffer => Len(walletCalls[h]) = 1

\* C11: when the wallet's createP2IDProof fails, handlePaymentRequired
\* rejects with the error that wraps the wallet's failure, the wallet is not
\* called again, midenFetch and midenFetchWithCallback reject with that
\* error, no retry request is issued, the callback is not invoked and no
\* response (synthetic 402 or other) is returned.
C11_WalletFailureRejects ==
  \A c \in Calls :
    (walletCalls[c] # <<>> /\ ~env.walletOk /\ pc[c] # "awaitProof") =>
      /\ Done(c)
      /\ Has(events[c], "walletFailed")
      /\ handled[c] = Rejected(ProofCreationError)
      /\ result[c].kind = "throw"
      /\ result[c].err = ProofCreationError
      /\ result[c].resp = None
      /\ Len(walletCalls[c]) = 1
      /\ Len(requests[c]) = (IF c \in FetchCalls THEN 1 ELSE 0)
      /\ ~Has(events[c], "request2")
      /\ callbacks[c] = <<>>

\* midenFetchWithCallback rejected because the wallet failed
C11_Witness ==
  /\ Done("midenFetchWithCallback")
  /\ ~env.walletOk
  /\ Len(walletCalls["midenFetchWithCallback"]) = 1
  /\ result["midenFetchWithCallback"] = Threw(ProofCreationError)

\* C12: midenFetch rejects only when the wallet's proof creation failed or
\* a transport call failed; whatever the content of the 402 body (malformed
\* JSON, wrong version, empty or incompatible offers, non-numeric amounts,
\* with or without an active maxPayment), the call resolves with a response.
C12_RejectsOnlyOnProofOrTransport ==
  (Done("midenFetch") /\ result["midenFetch"].kind = "throw") =>
    \/ Has(events["midenFetch"], "walletFailed")
    \/ Has(events["midenFetch"], "reject1")
    \/ Has(events["midenFetch"], "reject2")

\* C14: a transport failure at a suspension point of midenFetch (first
\* request, reading of the 402 body, retry request) makes the call reject
\* with that error: no response is returned in its place and no later phase
\* (selection, wallet call, retry request) starts.
C14_TransportFailureRejects ==
  LET c == "midenFetch"
      firstFailed == ~env.first.ok
      bodyFailed == First402 /\ ~env.options.dryRun /\ ~env.first.bodyOk
      retryFailed == Has(events[c], "request2") /\ ~env.retry.ok
  IN  /\ (Done(c) /\ (firstFailed \/ bodyFailed \/ retryFailed)) =>
           result[c] = Threw("TransportError")
      /\ (Done(c) /\ firstFailed) => Len(requests[c]) = 1 /\ walletCalls[c] = <<>>
      /\ (Done(c) /\ bodyFailed) => Len(requests[c]) = 1 /\ walletCalls[c] = <<>>
      /\ (Done(c) /\ retryFailed) => Len(requests[c]) = 2 /\ Len(walletCalls[c]) = 1

(***************************************************************************)
(* Properties of selectRequirement (SpecSelect)                            *)
(***************************************************************************)
Applied(k) == selection[k].out # NotApplied
InList(list, x) == \E i \in 1..Len(list) : list[i] = x

\* the filters, as the claims state them
SchemeOk(offer) == offer.scheme = "exact"
NetworkOk(offer, options) ==
  options.allowedNetworks \in {None, Some(<<>>)}
    \/ InList(ValueOf(options.allowedNetworks), offer.network)
FaucetOk(offer, options) ==
  options.allowedFaucets \in {None, Some(<<>>)}
    \/ InList(ValueOf(options.allowedFaucets), offer.asset)
Bounded(options) == options.maxPayment \notin {None, Some(0)}
IsInteger(amount) == BigInt(amount).ok
AmountOk(offer, options) ==
  Bounded(options) =>
    (IsInteger(offer.amount) /\ BigInt(offer.amount).val <= ValueOf(options.maxPayment))
PassesFilters(offer, options) ==
  SchemeOk(offer) /\ NetworkOk(offer, options) /\ FaucetOk(offer, options)
    /\ AmountOk(offer, options)

\* the lowest index whose offer satisfies Pass, as a result of the selector
FirstWhere(requirements, Pass(_)) ==
  LET passing == {i \in 1..Len(requirements) : Pass(requirements[i])}
  IN  IF passing = {} THEN [kind |-> "null", index |-> 0]
      ELSE [kind |-> "req", index |-> CHOOSE i \in passing : \A m \in passing : i <= m]

FirstPassing(requirements, options) ==
  LET Pass(offer) == PassesFilters(offer, options)
  IN  FirstWhere(requirements, Pass)

\* C13: with maxPayment set and greater than zero, selectRequirement skips
\* an offer whose amount is not an integer, without throwing, and goes on
\* with the following offers; with no active bound such an offer is not
\* disqualified and can be the one returned.
C13_MalformedAmountSkipped ==
  \A k \in {"base", "variant"} :
    Applied(k) =>
      LET requirements == selection[k].requirements
          options == selection[k].options
      IN  /\ selection[k].out.kind # "throw"
          /\ Bounded(options) =>
               /\ selection[k].out = FirstPassing(requirements, options)
               /\ selection[k].out.kind = "req" =>
                    IsInteger(requirements[selection[k].out.index].amount)
          /\ ( /\ ~Bounded(options)
               /\ requirements # <<>>
               /\ ~IsInteger(requirements[1].amount)
               /\ SchemeOk(requirements[1])
               /\ NetworkOk(requirements[1], options)
               /\ FaucetOk(requirements[1], options) )
               => selection[k].out = [kind |-> "req", index |-> 1]

\* C16: selectRequirement returns the lowest-index offer that passes all
\* active filters, null exactly when no offer passes (the empty list
\* included), and never an offer that violates an active filter or that is
\* not an element of the list.
C16_FirstPassingOffer ==
  \A k \in {"base", "variant"} :
    Applied(k) =>
      LET requirements == selection[k].requirements
          options == selection[k].options
          out == selection[k].out
      IN  /\ out = FirstPassing(requirements, options)
          /\ out.kind = "req" =>
               /\ out.index \in 1..Len(requirements)
               /\ PassesFilters(requirements[out.index], options)
          /\ out.kind = "null" <=>
               ~\E i \in 1..Len(requirements) : PassesFilters(requirements[i], options)

Members(list) == {list[i] : i \in 1..Len(list)}

\* o2 is o1 with one constraint changed as the claim's words say: a lower
\* maxPayment, or a list that is a subset of the one in o1
LiterallyTighter(o2, o1) ==
  \/ /\ IsSome(o1.maxPayment) /\ IsSome(o2.maxPayment)
     /\ ValueOf(o2.maxPayment) < ValueOf(o1.maxPayment)
     /\ o2.allowedFaucets = o1.allowedFaucets /\ o2.allowedNetworks = o1.allowedNetworks
  \/ /\ IsSome(o1.allowedFaucets) /\ IsSome(o2.allowedFaucets)
     /\ o2.allowedFaucets # o1.allowedFaucets
     /\ Members(ValueOf(o2.allowedFaucets)) \subseteq Members(ValueOf(o1.allowedFaucets))
     /\ o2.maxPayment = o1.maxPayment /\ o2.allowedNetworks = o1.allowedNetworks
  \/ /\ IsSome(o1.allowedNetworks) /\ IsSome(o2.allowedNetworks)
     /\ o2.allowedNetworks # o1.allowedNetworks
     /\ Members(ValueOf(o2.allowedNetworks)) \subseteq Members(ValueOf(o1.allowedNetworks))
     /\ o2.maxPayment = o1.maxPayment /\ o2.allowedFaucets = o1.allowedFaucets

\* the same, the changed constraint staying in force: the lower maxPayment
\* is still greater than zero, the smaller list is not empty
Tighter(o2, o1) ==
  /\ LiterallyTighter(o2, o1)
  /\ o2.maxPayment # Some(0) \/ o2.maxPayment = o1.maxPayment
  /\ o2.allowedFaucets # Some(<<>>) \/ o2.allowedFaucets = o1.allowedFaucets
  /\ o2.allowedNetworks # Some(<<>>) \/ o2.allowedNetworks = o1.allowedNetworks

\* one offer, selected under the base constraints and under the variant's
OneOfferTwice ==
  /\ Applied("base") /\ Applied("variant")
  /\ Len(selection["base"].requirements) = 1
  /\ selection["variant"].requirements = selection["base"].requirements

\* C18: if constraints C' differ from C only by one tightened constraint
\* (a lower maxPayment, or an allowedFaucets or allowedNetworks list that is
\* a subset of the one in C), an offer rejected under C is rejected under C'.
C18_TighteningAsWorded ==
  ( /\ OneOfferTwice
    /\ LiterallyTighter(selection["variant"].options, selection["base"].options)
    /\ selection["base"].out.kind # "req" )
  => selection["variant"].out.kind # "req"

\* C18 amended: the same when the tightened constraint stays in force (the
\* lower maxPayment is greater than zero, the subset list is not empty).
C18_TighteningInForce ==
  ( /\ OneOfferTwice
    /\ Tighter(selection["variant"].options, selection["base"].options)
    /\ selection["base"].out.kind # "req" )
  => selection["variant"].out.kind # "req"

\* an offer above the bound, rejected again under a lower bound that is
\* still in force
C18_Witness ==
  /\ OneOfferTwice
  /\ Tighter(selection["variant"].options, selection["base"].options)
  /\ selection["base"].requirements = <<OfferPricey>>
  /\ selection["base"].options.maxPayment = Some(600)
  /\ selection["variant"].options.maxPayment = Some(100)
  /\ selection["base"].out.kind = "null"
  /\ selection["variant"].out.kind = "null"

\* C19: selectRequirement is first-match: the same arguments give the same
\* result, and when two distinct offers both pass all filters and one of
\* them is the result, exchanging their positions makes the other one,
\* now the earlier, the result, whatever their prices.
C19_FirstMatchNotBest ==
  (Applied("base") /\ Applied("variant")) =>
    LET b == selection["base"]
        v == selection["variant"]
    IN  /\ (v.requirements = b.requirements /\ v.options = b.options) => v.out = b.out
        /\ \A i, j \in 1..Len(b.requirements) :
             ( /\ i < j
               /\ v.options = b.options
               /\ v.requirements = Swap(b.requirements, i, j)
               /\ b.requirements[i] # b.requirements[j]
               /\ PassesFilters(b.requirements[i], b.options)
               /\ PassesFilters(b.requirements[j], b.options)
               /\ b.out.kind = "req" /\ b.out.index \in {i, j} )
             => /\ b.out.index = i
                /\ v.out = [kind |-> "req", index |-> i]
                /\ v.requirements[v.out.index] = b.requirements[j]
                /\ v.requirements[v.out.index] # b.requirements[b.out.index]

\* the dearer offer wins when it comes first, the cheaper one when it does
C19_Witness ==
  /\ Applied("base") /\ Applied("variant")
  /\ selection["base"].requirements = <<OfferGood, OfferOtherFaucet>>
  /\ selection["variant"].requirements = <<OfferOtherFaucet, OfferGood>>
  /\ selection["base"].out = [kind |-> "req", index |-> 1]
  /\ selection["variant"].out = [kind |-> "req", index |-> 1]

\* C15: parsePaymentRequired never throws.  It returns null for a response
\* whose status is not 402 (without reading the body), for a body that is
\* not JSON, that has no accepts array, or whose x402Version is not 2;
\* otherwise it returns the parsed body with accepts in the order received.
C15_ParseNeverThrows ==
  LET c == "parsePaymentRequired"
      body == env.first.body
  IN  /\ result[c].kind # "throw"
      /\ handled[c].kind # "throw"
      /\ Done(c) =>
           IF env.first.status # PaymentRequiredStatus
           THEN /\ result[c].kind = "null"
                /\ ~ValueOf(response[c]).bodyUsed
                /\ ~Has(events[c], "readBody")
           ELSE /\ ValueOf(response[c]).bodyUsed
                /\ IF \/ ~env.first.bodyOk
                      \/ ~body.isJson
                      \/ ~IsSome(body.accepts)
                      \/ \E i \in 1..Len(ValueOf(body.accepts)) :
                           "payTo" \notin DOMAIN ValueOf(body.accepts)[i]
                      \/ body.x402Version # Some(X402Version)
                   THEN result[c].kind = "null" /\ result[c].value = None
                   ELSE /\ result[c].kind = "parsed"
                        /\ ValueOf(result[c].value).accepts = body.accepts
                        /\ ValueOf(result[c].value) = body

\* a version-2 body with two different offers is parsed, the offers in
\* the order they were sent
C15_Witness ==
  /\ Done("parsePaymentRequired")
  /\ result["parsePaymentRequired"].kind = "parsed"
  /\ ValueOf(result["parsePaymentRequired"].value).accepts = Some(<<OfferPricey, OfferGood>>)

\* C20: on the payment path the wallet's createP2IDProof is called with the
\* selected requirement's payTo as recipient, its asset as faucet, its
\* amount parsed as an integer, and the note type "public".
C20_ProofArguments ==
  \A c \in Calls :
    \A i \in 1..Len(walletCalls[c]) :
      LET w == walletCalls[c][i]
          r == ValueOf(selected[c])
      IN  /\ IsSome(selected[c])
          /\ InList(Accepts, r)
          /\ r = Accepts[FirstPassing(Accepts, env.options).index]
          /\ w.recipientId = r.payTo
          /\ w.faucetId = r.asset
          /\ w.noteType = "public"
          /\ IsInteger(r.amount)
          /\ w.amount = DigitsValue(r.amount)
          /\ r.amount = <<"5", "0", "0">> => w.amount = 500
          /\ r.amount = <<"7">> => w.amount = 7
          /\ DOMAIN w = {"recipientId", "faucetId", "amount", "noteType"}

\* the wallet was asked for 7 units of the other faucet's asset
C20_Witness ==
  /\ Len(walletCalls["midenFetch"]) = 1
  /\ selected["midenFetch"] = Some(OfferOtherFaucet)
  /\ walletCalls["midenFetch"][1] =
       [recipientId |-> "0xrecipient", faucetId |-> "0xother", amount |-> 7,
        noteType |-> "public"]

\* members of a decoded JavaScript object
HasMember(obj, key) == \E i \in 1..Len(obj.members) : obj.members[i][1] = Str(key)
Get(obj, key) ==
  obj.members[CHOOSE i \in 1..Len(obj.members) : obj.members[i][1] = Str(key)][2]
Keys(obj) == {obj.members[i][1] : i \in 1..Len(obj.members)}
IsObject(value) == value.t = "object"

\* C21: a PaymentResult carries the wallet's transaction id and the selected
\* requirement itself, and its paymentHeader decodes to a payload with
\* x402Version 2, `accepted` equal member for member to the selected
\* requirement (extra included), payload.from the wallet's account id,
\* payload.provenTransaction and payload.transactionId what the wallet
\* returned, and `resource` the resource of the 402 body exactly when the
\* body had one.
C21_PaymentResult ==
  \A c \in Calls :
    handled[c].kind = "result" =>
      LET r == ValueOf(handled[c].value)
          sel == ValueOf(selected[c])
          body == ValueOf(response[c]).body
          d == decodePaymentHeader(r.paymentHeader, codec.hasBuffer)
          p == d.value
          accepted == Get(p, "accepted")
          payload == Get(p, "payload")
      IN  /\ r.transactionId = WalletProof.transactionId
          /\ IsSome(selected[c]) /\ r.requirements = sel
          /\ d.ok /\ IsObject(p)
          /\ Keys(p) = {Str("x402Version"), Str("accepted"), Str("payload")}
                         \cup (IF IsSome(body.resource) THEN {Str("resource")} ELSE {})
          /\ Get(p, "x402Version") = JSNumber(2)
          /\ IsObject(accepted)
          /\ Keys(accepted) = {Str("scheme"), Str("network"), Str("amount"), Str("payTo"),
                               Str("asset"), Str("maxTimeoutSeconds")}
                                \cup (IF IsSome(sel.extra) THEN {Str("extra")} ELSE {})
          /\ Get(accepted, "scheme") = JSString(Str(sel.scheme))
          /\ Get(accepted, "network") = JSString(Str(sel.network))
          /\ Get(accepted, "amount") = JSString(AmountUnits(sel.amount))
          /\ Get(accepted, "payTo") = JSString(Str(sel.payTo))
          /\ Get(accepted, "asset") = JSString(Str(sel.asset))
          /\ Get(accepted, "maxTimeoutSeconds") = JSNumber(sel.maxTimeoutSeconds)
          /\ IsSome(sel.extra) => Get(accepted, "extra") = ValueOf(sel.extra)
          /\ payload = JSObject(<<Member("from", JSString(Str(WalletAccountId))),
                                  Member("provenTransaction",
                                         JSString(Str(WalletProof.provenTransactionHex))),
                                  Member("transactionId",
                                         JSString(Str(WalletProof.transactionId)))>>)
          /\ IsSome(body.resource) =>
               Get(p, "resource") = ResourceValue(ValueOf(body.resource))

\* handlePaymentRequired resolved with a result for the offer that has an
\* `extra` member, on a body that names its resource
C21_Witness ==
  /\ handled["handlePaymentRequired"].kind = "result"
  /\ selected["handlePaymentRequired"] = Some(OfferOtherFaucet)
  /\ IsSome(env.first.body.resource)
  /\ HasMember(Get(decodePaymentHeader(ValueOf(handled["handlePaymentRequired"].value).paymentHeader,
                                 codec.hasBuffer).value, "accepted"), "extra")

\* C22: the retry goes to the same URL with the same method, body and
\* headers as the first request, plus exactly one Payment header, the
\* negotiated one (a Payment header of the caller's is replaced); neither
\* request hands maxPayment, allowedFaucets, allowedNetworks or dryRun to
\* the transport; the caller's headers object is as the caller made it.
C22_RetryRequest ==
  \A c \in FetchCalls :
    /\ \A i \in 1..Len(requests[c]) : (DOMAIN requests[c][i].init) \cap X402Options = {}
    /\ Len(requests[c]) >= 1 =>
         /\ requests[c][1].url = args.url
         /\ requests[c][1].init = args.init
    /\ Len(requests[c]) = 2 =>
         LET first == requests[c][1]
             retry == requests[c][2]
             sent == SentHeaders(first).headers
             resent == SentHeaders(retry).headers
         IN  /\ retry.url = first.url
             /\ DOMAIN retry.init = DOMAIN first.init
             /\ retry.init.method = first.init.method
             /\ retry.init.body = first.init.body
             /\ DOMAIN resent = (DOMAIN sent) \cup {"payment"}
             /\ \A n \in (DOMAIN sent) \ {"payment"} : resent[n] = sent[n]
             /\ handled[c].kind = "result"
             /\ PaymentHeaders(retry) = <<ValueOf(handled[c].value).paymentHeader>>

\* a POST with a body, an Accept header and a stale Payment header, and
\* with x402 options, was retried
C22_Witness ==
  /\ Len(requests["midenFetch"]) = 2
  /\ args.init.method = Some("POST")
  /\ args.init.body = Some("{}")
  /\ args.init.headers = Some(HeadersInit(<< <<"Accept", "text/plain">>, <<"Payment", "stale">> >>))
  /\ env.options.maxPayment = Some(600)

\* a value with every bigint in it written as its decimal digits
RECURSIVE DecimalForm(_)
DecimalForm(value) ==
  IF value.t = "bigint"
  THEN JSString([i \in 1..Len(value.digits) |-> 48 + value.digits[i]])
  ELSE IF value.t = "object"
  THEN JSObject([i \in 1..Len(value.members) |->
                   <<value.members[i][1], DecimalForm(value.members[i][2])>>])
  ELSE value

\* C23: encodePaymentHeader succeeds on every valid payload, with Unicode
\* text and with integers above 2^63 in it, and decodePaymentHeader of the
\* header gives the payload back member for member, an arbitrary-precision
\* integer as its decimal digits.
C23_RoundTrip ==
  /\ codec.pc # "threw"
  /\ (codec.pc = "decoded" /\ codec.tamper = Untampered) =>
       /\ ValueOf(codec.decoded).ok
       /\ ValueOf(codec.decoded).value = DecimalForm(codec.payload)

\* the payload with Unicode text and 2^63 + 1 in it went through the
\* browser's btoa / atob and came back
C23_Witness ==
  /\ codec.pc = "decoded"
  /\ codec.tamper = Untampered
  /\ ~codec.hasBuffer
  /\ codec.payload = V2PaymentPayload(OfferUnicode, Some(ResourceInfo), WalletProof)
  /\ Get(Get(Get(ValueOf(codec.decoded).value, "accepted"), "extra"), "note")
       = JSString(UnicodeText)

\* base64 as RFC 4648 has it: characters of the alphabet in groups of four,
\* the last group padded with one or two "="
ValidBase64(h) ==
  LET n == Len(h)
      pad == IF n >= 2 /\ h[n] = Padding /\ h[n - 1] = Padding THEN 2
             ELSE IF n >= 1 /\ h[n] = Padding THEN 1 ELSE 0
  IN  /\ n % 4 = 0
      /\ \A i \in 1..(n - pad) : Sextet(h[i], FALSE) >= 0

\* the text a valid base64 string stands for is JSON
DecodesToJSON(h) == JSONparse(UTF8Decode(atob(h).bytes, 1).text).ok

\* C24: decodePaymentHeader throws for every string that is not valid
\* base64 and for every string whose decoded text is not JSON; it never
\* returns a payload recovered from such a string.
C24_DecodeFailsOnInvalid ==
  (codec.pc = "decoded"
     /\ (~ValidBase64(codec.header.header) \/ ~DecodesToJSON(codec.header.header)))
  => ~ValueOf(codec.decoded).ok

\* what call c asked the client for, in order
ClientOps(c) ==
  LET asked == SelectSeq(wallet.log, LAMBDA e : e.call = c /\ e.phase = "call")
  IN  [i \in 1..Len(asked) |-> asked[i].op]
IsPrefix(s, t) == Len(s) <= Len(t) /\ s = SubSeq(t, 1, Len(s))
WalletDone(c) == wallet.calls[c].pc = "done"
PaymentCall(c) == wallet.calls[c].op \in {"sendPayment", "createP2IDProof"}

\* C25: two sendPayment calls on one wallet are serialized: the call that
\* comes second does not ask the client to build (or submit) its
\* transaction before the first call's submission has settled.
C25_SendPaymentSerialized ==
  \A c1, c2 \in WalletCalls :
    \A i, j \in 1..Len(wallet.log) :
      ( /\ c1 # c2
        /\ i < j
        /\ wallet.log[i] = Asked(c1, "newSendTransactionRequest")
        /\ wallet.log[j] = Asked(c2, "newSendTransactionRequest")
        /\ wallet.calls[c1].op = "sendPayment" /\ wallet.calls[c2].op = "sendPayment" )
      => \E k \in 1..(j - 1) : wallet.log[k] = Answered(c1, "submitNewTransaction")

\* C26: createP2IDProof does not stay pending forever: as long as the call
\* is pending, something that takes it further can happen (the client
\* settles, or the proof timeout fires), also when proveTransaction never
\* resolves.
C26_ProofNeverStuck ==
  \A c \in WalletCalls :
    (wallet.calls[c].op = "createP2IDProof" /\ ~WalletDone(c)) => ENABLED WalletStep(c)

\* C27: createP2IDProof asks the client to build the request, then to
\* execute it, then to prove the result, and for nothing else: never to
\* submit; a call that resolved has done all three.
C27_ProofNeverSubmits ==
  \A c \in WalletCalls :
    wallet.calls[c].op = "createP2IDProof" =>
      /\ IsPrefix(ClientOps(c),
                  <<"newSendTransactionRequest", "executeTransaction", "proveTransaction">>)
      /\ \A i \in 1..Len(wallet.log) :
           wallet.log[i].call = c => wallet.log[i].op # "submitNewTransaction"
      /\ wallet.calls[c].outcome.kind = "result" =>
           /\ ClientOps(c) =
                <<"newSendTransactionRequest", "executeTransaction", "proveTransaction">>
           /\ wallet.calls[c].outcome.value = Some(WalletProof)

\* a proof was made: executed, then proved
C27_Witness ==
  /\ wallet.calls["A"].op = "createP2IDProof"
  /\ wallet.calls["A"].outcome.kind = "result"
  /\ wallet.log = <<Asked("A", "newSendTransactionRequest"), Asked("A", "executeTransaction"),
                    Answered("A", "executeTransaction"), Asked("A", "proveTransaction"),
                    Answered("A", "proveTransaction")>>

\* the rejection the inputs call for: amount, then recipientId, then
\* faucetId ("" when all three are good)
FirstInvalid(input) ==
  IF input.amount <= 0 THEN "Amount must be positive"
  ELSE IF ~HEX_RE(input.recipientId) THEN "Invalid hex format for recipientId"
  ELSE IF ~HEX_RE(input.faucetId) THEN "Invalid hex format for faucetId"
  ELSE ""

\* C28: sendPayment and createP2IDProof reject an amount <= 0 with "Amount
\* must be positive", a recipientId that is not hex with "Invalid hex format
\* for recipientId", a faucetId that is not hex with "Invalid hex format for
\* faucetId" (first failure wins), and have then asked the client for
\* nothing.
C28_ValidatesBeforeClient ==
  \A c \in WalletCalls :
    (PaymentCall(c) /\ wallet.calls[c].pc # "start"
       /\ FirstInvalid(wallet.calls[c].input) # "")
    => /\ wallet.calls[c].outcome = Rejected(FirstInvalid(wallet.calls[c].input))
       /\ ClientOps(c) = <<>>

\* C29: restore looks the account up locally first; only when it is absent
\* does it import it, then sync, then look it up again; it resolves with a
\* wallet of that account id when either lookup finds it, without import or
\* sync when the first does, and rejects with 'not found in local store or
\* on-chain' when the account is still absent after the import.
C29_RestoreOrder ==
  \A c \in WalletCalls :
    wallet.calls[c].op = "restore" =>
      LET ops == ClientOps(c)
          out == wallet.calls[c].outcome
          id == wallet.calls[c].input.accountIdHex
          full == <<"createClient", "getAccount", "importAccountById", "syncState",
                    "getAccount">>
      IN  /\ IsPrefix(ops, full)
          /\ Len(ops) > 2 => ~wallet.client.found
          /\ \A i \in 1..Len(wallet.log) :
               wallet.log[i] = Asked(c, "importAccountById") =>
                 \E k \in 1..(i - 1) : wallet.log[k] = Answered(c, "getAccount")
          /\ out.kind = "result" =>
               /\ out.value = Some([accountId |-> id])
               /\ \/ wallet.client.found /\ ops = <<"createClient", "getAccount">>
                  \/ ~wallet.client.found /\ wallet.client.imported /\ ops = full
          /\ (WalletDone(c) /\ HEX_RE(id) /\ wallet.client.found) => out.kind = "result"
          /\ (WalletDone(c) /\ HEX_RE(id) /\ ~wallet.client.found /\ wallet.client.importOk) =>
               IF wallet.client.imported THEN out.kind = "result"
               ELSE out = Rejected(NotFoundError) /\ ops = full

\* the account was not in the local store and was restored from the network
C29_Witness ==
  /\ wallet.calls["A"].op = "restore"
  /\ wallet.calls["A"].outcome.kind = "result"
  /\ ~wallet.client.found
  /\ ClientOps("A") = <<"createClient", "getAccount", "importAccountById", "syncState",
                        "getAccount">>

\* C30: waitForTransaction rejects with the 'not yet implemented' error for
\* every transaction id and timeout; it never syncs and never resolves.
C30_WaitNotImplemented ==
  \A c \in WalletCalls :
    (wallet.calls[c].op = "waitForTransaction" /\ wallet.calls[c].pc # "start") =>
      /\ wallet.calls[c].outcome = Rejected(NotImplementedError)
      /\ ClientOps(c) = <<>>

\* the phases of a paying call as `events` names them: the first request
\* is issued and answered, the body is read and parsed, an offer is
\* selected, the wallet is called and answers, the retry is issued
Phases ==
  <<"request1", "response1", "readBody", "parsed", "selected", "walletCall",
    "walletDone", "request2">>
PhaseEvents(ev) == SelectSeq(ev, LAMBDA e : \E i \in 1..Len(Phases) : Phases[i] = e)

\* C31: in every state of a midenFetch call the phases that have happened
\* are an initial part of: first request issued, first request answered,
\* body read, body parsed, offer selected, wallet called, wallet answered,
\* retry issued; so none starts before the one before it has completed and
\* none happens twice.  A call that issued the retry went through all of
\* them, with nothing in between, made one wallet call and two requests.
C31_PhasesInOrder ==
  LET c == "midenFetch"
  IN  /\ IsPrefix(PhaseEvents(events[c]), Phases)
      /\ Len(requests[c]) = Count(events[c], "request1") + Count(events[c], "request2")
      /\ Len(walletCalls[c]) = Count(events[c], "walletCall")
      /\ (selected[c] # None) = Has(events[c], "selected")
      /\ (handled[c].kind = "result") = Has(events[c], "walletDone")
      /\ Has(events[c], "request2") =>
           /\ IsPrefix(Phases, events[c])
           /\ SubSeq(events[c], Len(Phases) + 1, Len(events[c]))
                \in {<<>>, <<"response2">>, <<"reject2">>}
           /\ Len(requests[c]) = 2
           /\ Len(walletCalls[c]) = 1

\* a call that paid and got the answer to its retry
C31_Witness ==
  /\ Done("midenFetch")
  /\ events["midenFetch"] = Phases \o <<"response2">>
  /\ result["midenFetch"].kind = "response"

\* the number of calls under way at once
NumberOfCalls == Cardinality(MidenFetchCalls)

RECURSIVE Total(_, _)
Total(f, S) ==
  IF S = {} THEN 0
  ELSE LET c == CHOOSE x \in S : TRUE IN Len(f[c]) + Total(f, S \ {c})

\* C32: two midenFetch calls on one wallet, in every interleaving: the
\* offer a call works on is the first offer of its own 402 body that passes
\* its own constraints, and is what its wallet invocation is asked to pay;
\* a call whose body has no such offer calls no wallet and sends no retry;
\* the Payment header of a call's retry decodes to that call's offer and to
\* the proof its own wallet invocation resolved with; the calls together
\* issue at most 2N requests and N wallet invocations.
C32_NoInterference ==
  /\ Total(requests, MidenFetchCalls) <= 2 * NumberOfCalls
  /\ Total(walletCalls, MidenFetchCalls) <= NumberOfCalls
  /\ \A c \in MidenFetchCalls :
       LET e == EnvOf(c)
           accepts == ValueOf(e.first.body.accepts)
           own == FirstPassing(accepts, e.options)
       IN  /\ Len(requests[c]) <= 2
           /\ Len(walletCalls[c]) <= 1
           /\ selected[c] # None =>
                /\ own.kind = "req"
                /\ ValueOf(selected[c]) = accepts[own.index]
                /\ walletCalls[c] = <<ProofRequest(accepts[own.index])>>
           /\ (Done(c) /\ e.first.status = PaymentRequiredStatus /\ own.kind = "null") =>
                (walletCalls[c] = <<>> /\ Len(requests[c]) = 1)
           /\ Len(requests[c]) = 2 =>
                /\ Len(PaymentHeaders(requests[c][2])) = 1
                /\ LET d == decodePaymentHeader(PaymentHeaders(requests[c][2])[1],
                                                codec.hasBuffer)
                   IN  /\ d.ok
                       /\ Get(d.value, "accepted") = RequirementValue(accepts[own.index])
                       /\ Get(Get(d.value, "payload"), "transactionId")
                            = JSString(Str(ProofOf(c).transactionId))
                       /\ Get(Get(d.value, "payload"), "provenTransaction")
                            = JSString(Str(ProofOf(c).provenTransactionHex))

\* the first call has sent its retry while the second, under other
\* constraints and for another offer of the same body, waits for its proof
C32_Witness ==
  /\ Len(requests["midenFetch"]) = 2
  /\ pc[SecondCall] = "awaitProof"
  /\ env.first = env.second.first
  /\ env.options # env.second.options
  /\ selected["midenFetch"] # selected[SecondCall]

\* the element lacks a member of a requirement, or has it with the wrong
\* type
Lacks(offer, members) ==
  \E m \in members : m \notin DOMAIN offer \/ m \in Mistyped(offer)

\* C33: once the body of a 402 has been parsed, if an element of accepts
\* lacks scheme, network, amount, payTo, asset or maxTimeoutSeconds, or has
\* it with the wrong type, the parse yielded null and the wallet is never
\* called.
C33_MissingMemberYieldsNone ==
  \A c \in ShapeCalls :
    ( /\ Has(events[c], "parsed")
      /\ \E i \in 1..Len(Accepts) : Lacks(Accepts[i], RequirementMembers) )
    =>
      /\ handled[c] = Null
      /\ selected[c] = None
      /\ walletCalls[c] = <<>>

\* C38: once the body of a 402 has been parsed, if one element of accepts
\* is not what the schema asks of a requirement, parsePaymentRequired
\* returned null for the whole body: no offer is selected and the wallet is
\* not called, whatever the other elements are; midenFetch then returns
\* the 402 it builds itself, after one request.
C38_AllOrNothing ==
  \A c \in ShapeCalls :
    ( /\ Has(events[c], "parsed")
      /\ \E i \in 1..Len(Accepts) : ~RequirementShaped(Accepts[i]) )
    =>
      /\ handled[c] = Null
      /\ Done(c)
      /\ selected[c] = None
      /\ walletCalls[c] = <<>>
      /\ c \in HandlerCalls => result[c].kind = "null"
      /\ c = "midenFetch" =>
           /\ result[c] = Returned(SyntheticResponse)
           /\ Len(requests[c]) = 1

\* the first element is an offer the caller could pay, the second has no
\* payTo
C38_Witness ==
  /\ Done("midenFetch")
  /\ Accepts = <<OfferGood, Without(OfferGood, "payTo")>>
  /\ selectRequirement(<<OfferGood>>, env.options).kind = "req"
  /\ result["midenFetch"] = Returned(SyntheticResponse)

\* C34: no step of a call of parsePaymentRequired or handlePaymentRequired
\* (which runs selectRequirement and createPayment), nor of midenFetch,
\* changes the constraints or an offer: the options stay as they were, the
\* body a call has parsed keeps its offers, the offer createPayment works
\* on stays what it was, is an offer of that body, and is the one the
\* PaymentResult hands back.
C34_HandlerLeavesInputs ==
  [][ /\ env'.options = env.options
      /\ \A c \in Calls :
           /\ response[c] # None =>
                /\ response'[c] # None
                /\ ValueOf(response'[c]).body = ValueOf(response[c]).body
           /\ response'[c] # None =>
                ValueOf(response'[c]).body = env.first.body
           /\ selected[c] # None => selected'[c] = selected[c]
           /\ selected'[c] # None =>
                \E i \in 1..Len(Accepts) : Accepts[i] = ValueOf(selected'[c])
           /\ handled'[c].kind = "result" =>
                ValueOf(handled'[c].value).requirements = ValueOf(selected[c])
    ]_vars

\* handlePaymentRequired paid the second offer under a bound and a faucet
\* list
C34_Witness ==
  /\ handled["handlePaymentRequired"].kind = "result"
  /\ env.options.maxPayment = Some(600)
  /\ env.options.allowedFaucets = Some(<<"0xfaucet">>)
  /\ Accepts = <<OfferPricey, OfferGood>>
  /\ selected["handlePaymentRequired"] = Some(OfferGood)

\* a CAIP-2 identifier of a Miden network: miden:*
IsMidenNetwork(network) == IsPrefix(Str("miden:"), Str(network))

\* C35: the offer selectRequirement returns has scheme "exact" and a Miden
\* network, whatever the constraints: with no allowedNetworks (absent or
\* empty) an offer on another network is not selected.
C35_OnlyMidenExact ==
  \A k \in {"base", "variant"} :
    selection[k].out.kind = "req" =>
      LET offer == selection[k].requirements[selection[k].out.index]
      IN  /\ offer.scheme = "exact"
          /\ IsMidenNetwork(offer.network)

\* C37: when the onPayment callback throws, midenFetchWithCallback rejects
\* with the callback's error: the handler had resolved with a result, the
\* wallet was invoked once, the callback once, and the retry is never issued.
C37_CallbackErrorRejects ==
  LET c == "midenFetchWithCallback"
  IN  (~env.callbackOk /\ handled[c].kind = "result") =>
        /\ Done(c)
        /\ result[c] = Threw(CallbackError)
        /\ Len(requests[c]) = 1
        /\ ~Has(events[c], "request2")
        /\ Len(walletCalls[c]) = 1
        /\ callbacks[c] = <<ValueOf(handled[c].value)>>

\* the callback threw after a proof had been made
C37_Witness ==
  /\ ~env.callbackOk
  /\ handled["midenFetchWithCallback"].kind = "result"
  /\ Has(events["midenFetchWithCallback"], "walletDone")
  /\ result["midenFetchWithCallback"] = Threw(CallbackError)

\* the member `name` of the options midenFetch must see at the latest call of
\* the bound function: the one given at that call if it is present there,
\* else the default createMidenFetch was given, else `none`
Effective(name, none) ==
  LET options == bound.given[bound.made]
  IN  IF name \in DOMAIN options THEN options[name]
      ELSE IF name \in DOMAIN bound.created THEN bound.created[name]
      ELSE none

\* C36: a call of the function createMidenFetch(wallet, defaults) returned
\* is midenFetch(wallet, url, merged): every member is the one given at this
\* call, else the default; the first request carries the merged fetch
\* options; a default dryRun keeps the wallet out; the defaults are as they
\* were given, so that no call's options reach a later call.
C36_BoundCallIsMidenFetchOfMerged ==
  LET c == "midenFetch"
  IN  bound.made > 0 =>
        /\ env.options.maxPayment = Effective("maxPayment", None)
        /\ env.options.allowedFaucets = Effective("allowedFaucets", None)
        /\ env.options.allowedNetworks = Effective("allowedNetworks", None)
        /\ env.options.dryRun = Effective("dryRun", FALSE)
        /\ args.init = RequestInit(Effective("method", None), Effective("body", None),
                                   Effective("headers", None))
        /\ requests[c][1] = Request(args.url, args.init)
        /\ bound.defaultOptions = bound.created
        /\ (Effective("dryRun", FALSE) => walletCalls[c] = <<>> /\ Len(requests[c]) = 1)

\* the second call, given no options, paid under the default maxPayment
\* after a first call that was given a lower one
C36_Witness ==
  /\ bound.made = 2
  /\ bound.created = [maxPayment |-> Some(600), method |-> Some("POST")]
  /\ bound.given[1] = [maxPayment |-> Some(100), method |-> Some("GET")]
  /\ bound.given[2] = <<>>
  /\ env.options.maxPayment = Some(600)
  /\ Len(walletCalls["midenFetch"]) = 1
  /\ Done("midenFetch")

\* C39: no Payment header is made for an offer whose amount is not
\* positive: selectRequirement returns the offer, createP2IDProof rejects the
\* amount, midenFetch rejects with the wrapped error and sends no retry.
C39_NoPaymentForNonPositiveAmount ==
  \A c \in FetchCalls :
    (selected[c] # None /\ BigInt(ValueOf(selected[c]).amount).val <= 0) =>
      /\ Len(requests[c]) = 1
      /\ \A i \in 1..Len(requests[c]) : PaymentHeaders(requests[c][i]) = <<>>
      /\ handled[c].kind \in {"pending", "throw"}
      /\ Done(c) => result[c] = Threw(ProofFailure("Amount must be positive"))

TypeOK ==
  /\ \A c \in Calls : pc[c] \in {"idle", "start", "awaitFetch1", "awaitBody",
                                   "awaitProof", "awaitFetch2", "done"}

====
